---- MODULE Spec2Model ----
(***************************************************************************)
(* dogpile.cache CacheRegion (src/dogpile/cache/region.py): the dogpile    *)
(* lock protocol of get_or_create / get_or_create_multi, the region's      *)
(* invalidation strategy and the per-key mutex registry.                   *)
(*                                                                         *)
(* Time is a discrete clock `now`; time.time() reads it.  A payload is an  *)
(* integer: every creator invocation returns a payload never seen before.  *)
(* The Lock class (dogpile/lock.py) is not part of region.py; its steps    *)
(* are the ones of the dogpile-lock algorithm the region relies on.        *)
(***************************************************************************)
EXTENDS Integers, Sequences, FiniteSets, TLC

VARIABLES
    now,                  \* time.time()
    backend,              \* the backend's store: mangled key -> CachedValue | NO_VALUE
    region_invalidator,   \* DefaultInvalidationStrategy: _invalidated, _is_hard_invalidated
    region,               \* CacheRegion configuration: expiration_time, key_mangler, async_creation_runner
    mutex,                \* the NameRegistry's mutexes: mangled key -> holder ("free" when unlocked)
    th,                   \* per calling thread: the running call, its locals and its position
    runner,               \* per key: the async_creation_runner's background thread
    hist                  \* history: creator invocations, fresh payloads, invalidate calls

vars == <<now, backend, region_invalidator, region, mutex, th, runner, hist>>

----------------------------------------------------------------------------
(* Bounds and program constants *)

\* the keys the callers use
Keys == {1, 2}

\* value_version (region.py:54)
value_version == 2

\* the clock's value when the model starts (time.time() is far from 0)
StartTime == 5

\* how many times the clock advances
MaxTicks == 1

\* how many times invalidate() is called
MaxInvalidations == 1

\* "expiration_time is None"
None == -2

\* the caller's "no expiration" argument (region.py:1078)
NoExpiration == -1

\* the 0.0001 s that get_value subtracts for a soft-invalidated value,
\* in clock units (region.py:1042)
Epsilon == 1

\* payload of the NO_VALUE token (NO_VALUE.payload is NO_VALUE)
NoPayload == 0

\* api.NO_VALUE, in the shape of a CachedValue so that both compare
NO_VALUE == [payload |-> NoPayload, ct |-> 0, v |-> 0]

\* CachedValue(payload, {"ct": ct, "v": v})
CachedValue(payload, ct, v) == [payload |-> payload, ct |-> ct, v |-> v]

----------------------------------------------------------------------------
(* Sorting: sorted(set(keys)) *)

RECURSIVE SortedSeq(_)
SortedSeq(S) ==
    IF S = {} THEN <<>>
    ELSE LET m == CHOOSE x \in S : \A y \in S : x <= y
         IN  <<m>> \o SortedSeq(S \ {m})

Range(s) == {s[i] : i \in 1..Len(s)}

RECURSIVE Dedup(_)
Dedup(s) ==
    IF s = <<>> THEN <<>>
    ELSE LET rest == Dedup(Tail(s))
         IN  IF Head(s) \in Range(Tail(s)) THEN rest ELSE <<Head(s)>> \o rest


----------------------------------------------------------------------------
(* DefaultInvalidationStrategy (region.py:212-234) *)

\* an is_invalidated that holds after a hard invalidation only
is_invalidated_hard_only(timestamp) ==
    /\ region_invalidator.is_hard = "True"
    /\ timestamp < region_invalidator.invalidated

\* DefaultInvalidationStrategy.is_invalidated (region.py:220-221)
is_invalidated(timestamp) ==
    /\ region_invalidator.invalidated # None
    /\ timestamp < region_invalidator.invalidated

was_hard_invalidated == region_invalidator.is_hard = "True"

is_hard_invalidated(timestamp) ==
    was_hard_invalidated /\ is_invalidated(timestamp)

\* a region that never reports a soft invalidation
never_soft_invalidated == FALSE

was_soft_invalidated == region_invalidator.is_hard = "False"

\* an is_soft_invalidated that asks for the hard mode
soft_invalidated_asks_hard(timestamp) ==
    was_hard_invalidated /\ is_invalidated(timestamp)

is_soft_invalidated(timestamp) ==
    was_soft_invalidated /\ is_invalidated(timestamp)

----------------------------------------------------------------------------
(* CacheRegion helpers *)

\* the key mangler in use: none, or one that maps the keys onto each other
\* in reverse order (injective, as a hash of the key is)
key_mangler(key) ==
    IF region.key_mangler = "none" THEN key
    ELSE (CHOOSE m \in Keys : \A k \in Keys : k <= m) + 1 - key

\* the bytes for which the deserializer raises CantDeserializeException
CantBytes == 100

\* the bytes on which the deserializer fails in another way
BadBytes == 101

\* what a read hands on when the deserializer raised: the exception as a value
Raised == [payload |-> NoPayload, ct |-> -1, v |-> 0]

\* the serializer of the region: payload to bytes
serializer(payload) == payload + 10

\* the deserializer of the region: bytes to payload, or one of its failures
deserializer(bytes) ==
    IF bytes = CantBytes THEN [kind |-> "cant", payload |-> NoPayload]
    ELSE IF bytes = BadBytes THEN [kind |-> "error", payload |-> NoPayload]
    ELSE [kind |-> "ok", payload |-> bytes - 10]

\* a parse that lets CantDeserializeException through like any other failure
parse_cant_raises(value) ==
    IF value = NO_VALUE THEN NO_VALUE
    ELSE LET d == deserializer(value.payload)
         IN  IF d.kind = "ok" THEN CachedValue(d.payload, value.ct, value.v)
             ELSE Raised

\* CacheRegion._parse_serialized_from_backend (region.py:1273-1289)
_parse_serialized_from_backend(value) ==
    IF value = NO_VALUE THEN NO_VALUE
    ELSE LET d == deserializer(value.payload)
         IN  IF d.kind = "cant" THEN NO_VALUE
             ELSE IF d.kind = "error" THEN Raised
             ELSE CachedValue(d.payload, value.ct, value.v)

\* CacheRegion._serialized_cached_value (region.py:1291-1327): the metadata
\* as they are, the payload through the serializer
_serialized_cached_value(value) ==
    [value EXCEPT !.payload = serializer(value.payload)]

\* what a write hands to the backend (region.py:1353-1358, 1385-1388)
backend_formatted(value) ==
    IF region.serializer THEN _serialized_cached_value(value) ELSE value

\* CacheRegion._get_from_backend (region.py:1329-1335)
_get_from_backend(key) ==
    IF region.deserializer THEN _parse_serialized_from_backend(backend[key])
    ELSE backend[key]

\* an _is_cache_miss that does not look at the version
cache_miss_any_version(value) ==
    IF value = NO_VALUE THEN TRUE
    ELSE IF is_hard_invalidated(value.ct) THEN TRUE
    ELSE FALSE

\* an _is_cache_miss that tests the soft instead of the hard invalidation
cache_miss_soft_for_hard(value) ==
    IF value = NO_VALUE THEN TRUE
    ELSE IF value.v # value_version THEN TRUE
    ELSE IF is_soft_invalidated(value.ct) THEN TRUE
    ELSE FALSE

\* CacheRegion._is_cache_miss (region.py:914-924)
_is_cache_miss(value) ==
    IF value = NO_VALUE THEN TRUE
    ELSE IF value.v # value_version THEN TRUE
    ELSE IF is_hard_invalidated(value.ct) THEN TRUE
    ELSE FALSE

\* a _value that stamps every envelope with the time the model starts at
value_at_start(payload) == CachedValue(payload, StartTime, value_version)

\* a _value whose creation time is one tick behind the clock
value_backdated(payload) == CachedValue(payload, now - 1, value_version)

\* CacheRegion._value: CachedValue(value, _gen_metadata())
_value(payload) == CachedValue(payload, now, value_version)

\* a call that never takes an expiration time into account
expiration_ignored(expiration_time) == None

\* an expiration that keeps the sentinel -1 as a number of seconds
sentinel_kept(expiration_time) ==
    IF expiration_time = None THEN region.expiration_time ELSE expiration_time

\* the effective expiration of a call (region.py:1075-1079, 1191-1195)
effective_expiration(expiration_time) ==
    LET e == IF expiration_time = None THEN region.expiration_time
             ELSE expiration_time
    IN  IF e = NoExpiration THEN None ELSE e

\* what a value_fn tells the Lock: a value with its creation time
\* ("value"), NeedRegenerationException ("regen"), or the
\* DogpileCacheException of a soft invalidation without expiration ("error");
\* env_ct remembers the stored envelope's own creation time
Got(kind, payload, ct, env_ct) ==
    [kind |-> kind, payload |-> payload, ct |-> ct, env_ct |-> env_ct]

\* a get_value that reports every stored value with creation time 0, as
\* get_or_create_multi's get_value does for a miss
get_value_ct0(key, expiration_time) ==
    LET value == _get_from_backend(key)
    IN  IF _is_cache_miss(value) THEN Got("regen", NoPayload, 0, 0)
        ELSE Got("value", value.payload, 0, value.ct)

\* the second half of get_or_create.get_value, for a value that was not a
\* miss (region.py:1035-1044)
soft_checked(value, expiration_time) ==
    IF is_soft_invalidated(value.ct)
    THEN IF expiration_time = None
         THEN Got("error", NoPayload, 0, 0)
         ELSE Got("value", value.payload,
                  now - expiration_time - Epsilon, value.ct)
    ELSE Got("value", value.payload, value.ct, value.ct)

\* get_or_create.get_value (region.py:1030-1044)
get_value(key, expiration_time) ==
    LET value == _get_from_backend(key)
    IN  IF value = Raised THEN Got("raise", NoPayload, 0, 0)
        ELSE IF _is_cache_miss(value) THEN Got("regen", NoPayload, 0, 0)
        ELSE soft_checked(value, expiration_time)

\* a get_value that reports a miss as get_or_create's get_value does, by
\* NeedRegenerationException
multi_get_value_regen(values, key, expiration_time) ==
    IF _is_cache_miss(values[key]) THEN Got("regen", NoPayload, 0, 0)
    ELSE soft_checked(values[key], expiration_time)

\* a get_value that reports every key as not available
multi_get_value_no_value(values, key, expiration_time) ==
    Got("value", values[key].payload, 0, 0)

\* get_or_create_multi.get_value (region.py:1165-1183): reads the values
\* fetched by the one get_multi, and reports a miss as creation time 0

multi_get_value(values, key, expiration_time) ==
    LET value == values[key]
    IN  IF _is_cache_miss(value) THEN Got("value", value.payload, 0, 0)
        ELSE IF is_soft_invalidated(value.ct)
        THEN IF expiration_time = None
             THEN Got("error", NoPayload, 0, 0)
             ELSE Got("value", value.payload,
                      now - expiration_time - Epsilon, value.ct)
        ELSE Got("value", value.payload, value.ct, value.ct)

\* the keys de-duplicated but left in the caller's order
unsorted_unique_keys(keys) == Dedup(keys)

\* sorted(set(keys)) (region.py:1197)
sorted_unique_keys(keys) == SortedSeq(Range(keys))

----------------------------------------------------------------------------
(* The mutex of a key: _LockWrapper around threading.Lock (region.py:557-580) *)

\* a registry that hands every caller a new, unlocked mutex
never_locked(key) == FALSE

\* _LockWrapper.locked
locked(key) == mutex[key] # "free"

\* _LockWrapper.acquire, when it succeeds: the lock is held (by `who`)
acquire(key, who) == [mutex EXCEPT ![key] = who]

\* a release that leaves the mutex held
release_noop(mx, key) == mx

\* _LockWrapper.release

release(mx, key) == [mx EXCEPT ![key] = "free"]

RECURSIVE release_all(_, _)
release_all(mx, keys) ==
    IF keys = {} THEN mx
    ELSE LET k == CHOOSE x \in keys : TRUE
         IN  release_all(release(mx, k), keys \ {k})

----------------------------------------------------------------------------
(* The dogpile Lock: freshness tests *)

\* Lock._has_value: a creation time of 0 means "no value"
_has_value(createdtime) == createdtime > 0

\* Lock._is_expired: no value, or older than the expiration time
_is_expired(createdtime, expiretime) ==
    \/ ~_has_value(createdtime)
    \/ /\ expiretime # None
       /\ now - createdtime >= expiretime


----------------------------------------------------------------------------
(* Threads *)

\* how many calls each thread makes
MaxCalls == 1

\* a thread that is not inside a call
\* the arguments of configure (region.py:423-432) when none was passed
NoArgs ==
    [backend |-> "none", expiration_time |-> None, wrap |-> <<>>,
     replace_existing_backend |-> FALSE, region_invalidator |-> FALSE]

IdleThread ==
    [pc |-> "idle", op |-> "none", calls |-> 0,
     \* the arguments
     key |-> 0, keys |-> <<>>, expiration_time |-> None,
     ignore_expiration |-> FALSE,
     \* history: the expiration_time the caller passed
     expiration_arg |-> None,
     should_cache_fn |-> "none", creator_ok |-> TRUE, write_ok |-> TRUE,
     \* the Lock's locals
     value |-> NoPayload, createdtime |-> 0, env_ct |-> 0,
     \* get_value's local, when its two tests are separate steps
     gv_value |-> NO_VALUE,
     \* gen_value's local
     created |-> NO_VALUE,
     \* get_or_create_multi's locals
     skeys |-> <<>>, i |-> 0, values |-> [k \in Keys |-> NO_VALUE],
     mutexes |-> {}, new_values |-> <<>>,
     values_w_created |-> [k \in Keys |-> NO_VALUE],
     \* the outcome
     ret |-> NoPayload, rets |-> <<>>, exc |-> "none",
     \* history of the call
     epoch |-> 0, invoked |-> FALSE, saw_locked |-> FALSE, waited |-> FALSE,
     soft_seen |-> FALSE,
     \* what get_value_metadata returns: no element stands for None
     metadata |-> <<>>,
     ret_ct |-> 0, wrote |-> {}, acquired |-> <<>>,
     \* the arguments of a configure or wrap call, and what a property or
     \* key_is_locked returned
     args |-> NoArgs, returned |-> "none"]

\* the threads are interchangeable: they are named in the order in which
\* they make their first call
ThreadOrder == <<"t1", "t2", "t3">>

may_start(t) ==
    \A i, j \in 1..Len(ThreadOrder) :
        (ThreadOrder[j] = t /\ i < j /\ ThreadOrder[i] \in DOMAIN th) =>
            th[ThreadOrder[i]].calls > 0

\* the runner of a key that is not running
IdleRunner == [pc |-> "idle", creator_ok |-> TRUE, value |-> NoPayload]

\* the key the running Lock of a thread is about
lock_orig_key(r) == IF r.op = "multi" THEN r.skeys[r.i] ELSE r.key

lock_key(r) == key_mangler(lock_orig_key(r))

\* the Lock's value_and_created_fn of a thread
value_fn(r) ==
    IF r.op = "multi"
    THEN multi_get_value(r.values, lock_key(r), r.expiration_time)
    ELSE get_value(lock_key(r), r.expiration_time)

\* whether the value the Lock's value_and_created_fn reads is a
\* soft-invalidated envelope (region.py:1035-1036, 1174-1175)
reads_soft_invalidated(r) ==
    LET value == IF r.op = "multi" THEN r.values[lock_key(r)]
                 ELSE _get_from_backend(lock_key(r))
    IN  ~_is_cache_miss(value) /\ is_soft_invalidated(value.ct)

\* a get_or_create that never hands the creation to a runner
no_async_creation_runner(r) == r.op = "multi"

\* the Lock's async_creator: get_or_create has one when the region has an
\* async_creation_runner (region.py:1081-1098), get_or_create_multi always
\* (region.py:1218-1220)
has_async_creator(r) == r.op = "multi" \/ region.async_creation_runner

\* get_or_create_multi's loop goes on to the next key, or leaves the loop
\* (region.py:1212-1223)
next_key(r) ==
    IF r.i < Len(r.skeys)
    THEN [r EXCEPT !.pc = "enter", !.i = @ + 1]
    ELSE [r EXCEPT !.pc = "m_create"]

\* the Lock returns a stored value to the region
lock_return(r, payload, env_ct) ==
    IF r.op = "multi" THEN next_key(r)
    ELSE [r EXCEPT !.pc = "done", !.ret = payload, !.ret_ct = env_ct]

\* an exception leaves the call
raise(r, exc) == [r EXCEPT !.pc = "done", !.exc = exc]

\* after the mutex is acquired: hand it to the async creator when there is a
\* value to return and an async creator, else call the creator now
after_acquire(r, has_value) ==
    IF has_value /\ has_async_creator(r) THEN "async" ELSE "create"


----------------------------------------------------------------------------
(* The clock and the region's invalidate() *)

Tick ==
    /\ now < StartTime + MaxTicks
    /\ now' = now + 1
    /\ UNCHANGED <<backend, region_invalidator, region, mutex, th, runner, hist>>

\* CacheRegion.invalidate (region.py:602-650, 217-219)
Invalidate(hard) ==
    /\ hist.invalidations < MaxInvalidations
    /\ region_invalidator' =
           [invalidated |-> now, is_hard |-> IF hard THEN "True" ELSE "False"]
    /\ hist' = [hist EXCEPT !.invalidations = @ + 1,
                            !.before = region_invalidator]
    /\ UNCHANGED <<now, backend, region, mutex, th, runner>>

----------------------------------------------------------------------------
(* get_or_create (region.py:937-1111) *)

StartGetOrCreate(t, key, expiration_time, should_cache_fn, creator_ok, write_ok) ==
    /\ th[t].pc \in {"idle", "done"}
    /\ th[t].calls < MaxCalls
    /\ may_start(t)
    /\ th' = [th EXCEPT ![t] =
                 [IdleThread EXCEPT
                     !.pc = "enter", !.op = "goc", !.calls = th[t].calls + 1,
                     !.key = key,
                     !.expiration_time = effective_expiration(expiration_time),
                     !.expiration_arg = expiration_time,
                     !.should_cache_fn = should_cache_fn,
                     !.creator_ok = creator_ok, !.write_ok = write_ok,
                     !.epoch = hist.invalidations]]
    /\ UNCHANGED <<now, backend, region_invalidator, region, mutex, runner, hist>>

----------------------------------------------------------------------------
(* The dogpile Lock, entered by get_or_create and, per key, by              *)
(* get_or_create_multi                                                     *)

\* Lock._enter: read the value; return it when it is fresh, else go for the
\* mutex: without blocking when there is a value to fall back on, blocking
\* when there is none
\* where the Lock goes once value_and_created_fn has answered g; soft says
\* whether the value was read as soft-invalidated
lock_entered(r, g, soft) ==
    LET r1 == [r EXCEPT !.soft_seen = @ \/ soft]
        r2 == [r1 EXCEPT !.value = g.payload, !.createdtime = g.ct,
                         !.env_ct = g.env_ct]
    IN  IF g.kind = "error" THEN raise(r1, "SoftInvalidationError")
        ELSE IF g.kind = "raise" THEN raise(r1, "DeserializerError")
        ELSE IF g.kind = "value" /\ ~_is_expired(g.ct, r.expiration_time)
        THEN lock_return(r2, g.payload, g.env_ct)
        ELSE IF g.kind = "value" /\ _has_value(g.ct)
        THEN [r2 EXCEPT !.pc = "try_acquire"]
        ELSE [r2 EXCEPT !.pc = "block_acquire",
                        !.waited = locked(lock_key(r))]

LockEnter(t) ==
    LET r == th[t]
    IN  /\ r.pc = "enter"
        /\ th' = [th EXCEPT ![t] =
                     lock_entered(r, value_fn(r), reads_soft_invalidated(r))]
        /\ UNCHANGED <<now, backend, region_invalidator, region, mutex, runner, hist>>

\* the mutex is held by the caller `t` (or about to be): the async creator
\* takes it over, or the creator is called
Acquired(t, r, has_value) ==
    LET k == lock_key(r)
        mode == after_acquire(r, has_value)
        rr == r
    IN  IF mode = "async"
        THEN IF r.op = "multi"
             THEN \* async_creator records the mutex (region.py:1188-1189)
                  /\ th' = [th EXCEPT ![t] =
                               next_key([rr EXCEPT !.mutexes = @ \cup {lock_orig_key(r)}])]
                  /\ mutex' = acquire(k, t)
                  /\ UNCHANGED <<runner, hist>>
             ELSE \* the async_creation_runner gets the mutex (region.py:1085-1095)
                  /\ th' = [th EXCEPT ![t] = lock_return(rr, r.value, r.env_ct)]
                  /\ mutex' = acquire(k, "runner")
                  /\ runner' = [runner EXCEPT ![k] =
                                   [IdleRunner EXCEPT !.pc = "creating",
                                                      !.creator_ok = r.creator_ok]]
                  /\ hist' = [hist EXCEPT !.creator_calls[k] = @ + 1]
        ELSE IF r.op = "multi"
             THEN \* get_or_create_multi.gen_value (region.py:1185-1186)
                  /\ th' = [th EXCEPT ![t] = raise(rr, "NotImplementedError")]
                  /\ mutex' = release(mutex, k)
                  /\ UNCHANGED <<runner, hist>>
             ELSE \* get_or_create.gen_value calls the creator (region.py:1046-1053)
                  /\ th' = [th EXCEPT ![t] =
                               [rr EXCEPT !.pc = "creating", !.invoked = TRUE]]
                  /\ mutex' = acquire(k, t)
                  /\ hist' = [hist EXCEPT !.creator_calls[k] = @ + 1]
                  /\ UNCHANGED runner

\* mutex.acquire(False) with a value in hand: if the mutex is taken,
\* return the value
LockTryAcquire(t) ==
    LET r == th[t]
    IN  /\ r.pc = "try_acquire"
        /\ IF locked(lock_key(r))
           THEN /\ th' = [th EXCEPT ![t] =
                             lock_return([r EXCEPT !.saw_locked = TRUE],
                                         r.value, r.env_ct)]
                /\ UNCHANGED <<mutex, runner, hist>>
           ELSE Acquired(t, [r EXCEPT !.acquired = Append(@, lock_orig_key(r))],
                         TRUE)
        /\ UNCHANGED <<now, backend, region_invalidator, region>>

\* mutex.acquire() without a value: wait for the mutex
LockBlockAcquire(t) ==
    LET r == th[t]
    IN  /\ r.pc = "block_acquire"
        /\ ~locked(lock_key(r))
        /\ mutex' = acquire(lock_key(r), t)
        /\ th' = [th EXCEPT ![t] =
                     [r EXCEPT !.pc = "reread",
                               !.acquired = Append(@, lock_orig_key(r))]]
        /\ UNCHANGED <<now, backend, region_invalidator, region, runner, hist>>

\* with the mutex held, read again: another thread may have created the
\* value while this one waited
LockReread(t) ==
    LET r == th[t]
        k == lock_key(r)
        g == value_fn(r)
        r1 == [r EXCEPT !.soft_seen = @ \/ reads_soft_invalidated(r)]
        r2 == [r1 EXCEPT !.value = g.payload, !.createdtime = g.ct,
                         !.env_ct = g.env_ct]
    IN  /\ r.pc = "reread"
        /\ IF g.kind \in {"error", "raise"}
           THEN /\ th' = [th EXCEPT ![t] =
                             raise(r1, IF g.kind = "raise"
                                       THEN "DeserializerError"
                                       ELSE "SoftInvalidationError")]
                /\ mutex' = release(mutex, k)
                /\ UNCHANGED <<runner, hist>>
           ELSE IF g.kind = "regen"
           THEN Acquired(t, r1, FALSE)
           ELSE IF ~_is_expired(g.ct, r.expiration_time)
           THEN /\ th' = [th EXCEPT ![t] = lock_return(r2, g.payload, g.env_ct)]
                /\ mutex' = release(mutex, k)
                /\ UNCHANGED <<runner, hist>>
           ELSE Acquired(t, r2, TRUE)
        /\ UNCHANGED <<now, backend, region_invalidator, region>>

----------------------------------------------------------------------------
(* get_or_create.gen_value, after the creator was called                   *)
(* (region.py:1046-1073)                                                   *)

\* a should_cache_fn whose answer is ignored
should_cache_ignored(fn, payload) == TRUE

\* `not should_cache_fn or should_cache_fn(created_value)` (region.py:1070,
\* 1246-1256): "none" is no function, "false" always declines, "even"
\* accepts the even payloads
should_cache(fn, payload) ==
    IF fn = "false" THEN FALSE
    ELSE IF fn = "even" THEN payload % 2 = 0
    ELSE TRUE

\* a creator that is taken to have returned although it raised
creator_never_raises(r) == FALSE

\* whether the creator call of a thread raises (region.py:1048-1053, 1230)
creator_raises(r) == ~r.creator_ok

\* the creator returns or raises; the value is wrapped, the soft
\* invalidation check and should_cache_fn run
CreatorReturn(t) ==
    LET r == th[t]
        value == _value(hist.payloads + 1)
    IN  /\ r.pc = "creating"
        /\ th' = [th EXCEPT ![t] =
                     IF creator_raises(r)
                     THEN [r EXCEPT !.pc = "release", !.exc = "CreatorError"]
                     ELSE IF r.expiration_time = None /\ was_soft_invalidated
                     THEN [r EXCEPT !.pc = "release",
                                    !.exc = "SoftInvalidationError"]
                     ELSE IF r.should_cache_fn = "raise"
                     THEN [r EXCEPT !.pc = "release", !.exc = "ShouldCacheError"]
                     ELSE IF ~should_cache(r.should_cache_fn, value.payload)
                     THEN [r EXCEPT !.pc = "release", !.created = value]
                     ELSE [r EXCEPT !.pc = "set", !.created = value]]
        /\ hist' = IF creator_raises(r) THEN hist
                   ELSE [hist EXCEPT !.payloads = @ + 1]
        /\ UNCHANGED <<now, backend, region_invalidator, region, mutex, runner>>

\* a gen_value that never reaches the backend with the created value
set_cached_value_dropped(key, value) == backend

\* _set_cached_value_to_backend (region.py:1071, 1350-1358)
_set_cached_value_to_backend(key, value) ==
    [backend EXCEPT ![key] = backend_formatted(value)]

BackendSet(t) ==
    LET r == th[t]
    IN  /\ r.pc = "set"
        /\ IF r.write_ok
           THEN /\ backend' = _set_cached_value_to_backend(lock_key(r), r.created)
                /\ th' = [th EXCEPT ![t] =
                             [r EXCEPT !.pc = "release",
                                       !.wrote = @ \cup {lock_key(r)}]]
           ELSE /\ backend' = backend
                /\ th' = [th EXCEPT ![t] =
                             [r EXCEPT !.pc = "release", !.exc = "BackendError"]]
        /\ UNCHANGED <<now, region_invalidator, region, mutex, runner, hist>>

\* the Lock's finally: release the mutex; the call returns or raises
Release(t) ==
    LET r == th[t]
    IN  /\ r.pc = "release"
        /\ mutex' = release(mutex, lock_key(r))
        /\ th' = [th EXCEPT ![t] =
                     [r EXCEPT !.pc = "done",
                               !.ret = IF r.exc = "none" THEN r.created.payload
                                       ELSE NoPayload]]
        /\ UNCHANGED <<now, backend, region_invalidator, region, runner, hist>>


----------------------------------------------------------------------------
(* get_or_create_multi (region.py:1113-1262) *)

\* the mangled keys of a set of caller keys
mangled(keys) == {key_mangler(k) : k \in keys}

StartGetOrCreateMulti(t, keys, expiration_time, should_cache_fn, creator_ok, write_ok) ==
    /\ th[t].pc \in {"idle", "done"}
    /\ th[t].calls < MaxCalls
    /\ may_start(t)
    /\ th' = [th EXCEPT ![t] =
                 [IdleThread EXCEPT
                     !.pc = "m_get", !.op = "multi", !.calls = th[t].calls + 1,
                     !.keys = keys,
                     !.skeys = sorted_unique_keys(keys),
                     !.expiration_time = effective_expiration(expiration_time),
                     !.expiration_arg = expiration_time,
                     !.should_cache_fn = should_cache_fn,
                     !.creator_ok = creator_ok, !.write_ok = write_ok,
                     !.epoch = hist.invalidations]]
    /\ UNCHANGED <<now, backend, region_invalidator, region, mutex, runner, hist>>

\* values = dict(zip(mangled_keys, _get_multi_from_backend(mangled_keys)))
\* (region.py:1206-1208), then the loop over the keys starts
MultiGet(t) ==
    LET r == th[t]
        values == [k \in Keys |-> IF k \in mangled(Range(r.skeys))
                                   THEN _get_from_backend(k)
                                   ELSE NO_VALUE]
    IN  /\ r.pc = "m_get"
        /\ th' = [th EXCEPT ![t] =
                     IF Raised \in Range(values)
                     THEN raise(r, "DeserializerError")
                     ELSE next_key([r EXCEPT !.values = values])]
        /\ UNCHANGED <<now, backend, region_invalidator, region, mutex, runner, hist>>

\* keys_to_get = sorted(mutexes) (region.py:1227)
keys_to_get(r) == SortedSeq(r.mutexes)

\* payloads returned in the order of the sorted unique keys
multi_result_sorted(r, values) ==
    [n \in 1..Len(r.skeys) |-> values[key_mangler(r.skeys[n])].payload]

\* the payloads get_or_create_multi returns (region.py:1259)
multi_result(r, values) ==
    [n \in 1..Len(r.keys) |-> values[key_mangler(r.keys[n])].payload]

\* after the loop: nothing to create, or the creator is called with the keys
\* whose mutex was recorded (region.py:1223-1230)
MultiCreate(t) ==
    LET r == th[t]
    IN  /\ r.pc = "m_create"
        /\ IF r.mutexes = {}
           THEN /\ th' = [th EXCEPT ![t] =
                             [r EXCEPT !.pc = "done",
                                       !.rets = multi_result(r, r.values)]]
                /\ hist' = hist
           ELSE /\ th' = [th EXCEPT ![t] =
                             [r EXCEPT !.pc = "m_creating", !.invoked = TRUE]]
                /\ hist' = [hist EXCEPT !.creator_calls =
                               [k \in Keys |-> IF k \in mangled(r.mutexes)
                                               THEN @[k] + 1 ELSE @[k]]]
        /\ UNCHANGED <<now, backend, region_invalidator, region, mutex, runner>>

\* the creator returns one new value per key, or raises
MultiCreatorReturn(t) ==
    LET r == th[t]
        n == Cardinality(r.mutexes)
    IN  /\ r.pc = "m_creating"
        /\ th' = [th EXCEPT ![t] =
                     IF creator_raises(r)
                     THEN [r EXCEPT !.pc = "m_release", !.exc = "CreatorError"]
                     ELSE [r EXCEPT !.pc = "m_wrap", !.i = 1,
                                    !.new_values =
                                        [j \in 1..n |-> hist.payloads + j]]]
        /\ hist' = IF creator_raises(r) THEN hist
                   ELSE [hist EXCEPT !.payloads = @ + n]
        /\ UNCHANGED <<now, backend, region_invalidator, region, mutex, runner>>

\* values_w_created: each new value is wrapped by its own _value() call
\* (region.py:1232-1235); after the last one, the soft invalidation check
\* and should_cache_fn (region.py:1237-1256)
MultiWrap(t) ==
    LET r == th[t]
        k == key_mangler(keys_to_get(r)[r.i])
        r2 == [r EXCEPT !.values_w_created[k] = _value(r.new_values[r.i])]
    IN  /\ r.pc = "m_wrap"
        /\ th' = [th EXCEPT ![t] =
                     IF r.i < Len(keys_to_get(r))
                     THEN [r2 EXCEPT !.i = @ + 1]
                     ELSE IF r.expiration_time = None /\ was_soft_invalidated
                     THEN [r2 EXCEPT !.pc = "m_release",
                                     !.exc = "SoftInvalidationError"]
                     ELSE IF r.should_cache_fn = "raise"
                     THEN [r2 EXCEPT !.pc = "m_release",
                                     !.exc = "ShouldCacheError"]
                     ELSE [r2 EXCEPT !.pc = "m_set"]]
        /\ UNCHANGED <<now, backend, region_invalidator, region, mutex, runner, hist>>

\* the keys of values_w_created that should_cache_fn lets through
\* (region.py:1246-1256)
keys_to_cache(r) ==
    {k \in mangled(r.mutexes) :
        should_cache(r.should_cache_fn, r.values_w_created[k].payload)}

\* a set_multi that never reaches the backend
set_multi_dropped(keys, mapping) == backend

\* _set_multi_cached_value_to_backend (region.py:1360-1374)
_set_multi_cached_value_to_backend(keys, mapping) ==
    [k \in Keys |-> IF k \in keys THEN backend_formatted(mapping[k])
                    ELSE backend[k]]

\* the write, then values.update(values_w_created) (region.py:1246-1258)
MultiSet(t) ==
    LET r == th[t]
        ks == keys_to_cache(r)
    IN  /\ r.pc = "m_set"
        /\ IF ks # {} /\ ~r.write_ok
           THEN /\ backend' = backend
                /\ th' = [th EXCEPT ![t] =
                             [r EXCEPT !.pc = "m_release", !.exc = "BackendError"]]
           ELSE /\ backend' = _set_multi_cached_value_to_backend(ks, r.values_w_created)
                /\ th' = [th EXCEPT ![t] =
                             [r EXCEPT !.pc = "m_release",
                                       !.wrote = @ \cup ks,
                                       !.values =
                                           [k \in Keys |->
                                               IF k \in mangled(r.mutexes)
                                               THEN r.values_w_created[k]
                                               ELSE @[k]]]]
        /\ UNCHANGED <<now, region_invalidator, region, mutex, runner, hist>>

\* finally: release every recorded mutex (region.py:1260-1262)
MultiRelease(t) ==
    LET r == th[t]
    IN  /\ r.pc = "m_release"
        /\ mutex' = release_all(mutex, mangled(r.mutexes))
        /\ th' = [th EXCEPT ![t] =
                     [r EXCEPT !.pc = "done",
                               !.rets = IF r.exc = "none"
                                        THEN multi_result(r, r.values)
                                        ELSE <<>>]]
        /\ UNCHANGED <<now, backend, region_invalidator, region, runner, hist>>

----------------------------------------------------------------------------
(* The async_creation_runner of the class documentation                    *)
(* (region.py:362-372): a thread that calls the creator, sets the value    *)
(* and releases the mutex                                                  *)

RunnerCreatorReturn(k) ==
    /\ runner[k].pc = "creating"
    /\ runner' = [runner EXCEPT ![k] =
                     IF runner[k].creator_ok
                     THEN [@ EXCEPT !.pc = "set", !.value = hist.payloads + 1]
                     ELSE [@ EXCEPT !.pc = "release"]]
    /\ hist' = IF runner[k].creator_ok
               THEN [hist EXCEPT !.payloads = @ + 1] ELSE hist
    /\ UNCHANGED <<now, backend, region_invalidator, region, mutex, th>>

\* cache.set(somekey, value): CacheRegion.set (region.py:1379-1388)
RunnerSet(k) ==
    /\ runner[k].pc = "set"
    /\ backend' = [backend EXCEPT
                       ![k] = backend_formatted(_value(runner[k].value))]
    /\ runner' = [runner EXCEPT ![k].pc = "release"]
    /\ UNCHANGED <<now, region_invalidator, region, mutex, th, hist>>

RunnerRelease(k) ==
    /\ runner[k].pc = "release"
    /\ mutex' = release(mutex, k)
    /\ runner' = [runner EXCEPT ![k] = IdleRunner]
    /\ UNCHANGED <<now, backend, region_invalidator, region, th, hist>>


----------------------------------------------------------------------------
(* The read operations: get, get_value_metadata, get_multi                 *)
(* (region.py:706-901)                                                     *)

\* an _unexpired_value_fn that tests the value whatever the flag says
unexpired_flag_ignored(value, expiration_time, ignore_expiration) ==
    LET e == IF expiration_time = None THEN region.expiration_time
             ELSE expiration_time
    IN  IF value = NO_VALUE THEN value
        ELSE IF e # None /\ now - value.ct > e THEN NO_VALUE
        ELSE IF is_invalidated(value.ct) THEN NO_VALUE
        ELSE value

\* the function _unexpired_value_fn returns, applied to a value
\* (region.py:827-851)
_unexpired_value_fn(value, expiration_time, ignore_expiration) ==
    IF ignore_expiration THEN value
    ELSE LET e == IF expiration_time = None THEN region.expiration_time
                  ELSE expiration_time
         IN  IF value = NO_VALUE THEN value
             ELSE IF e # None /\ now - value.ct > e THEN NO_VALUE
             ELSE IF is_invalidated(value.ct) THEN NO_VALUE
             ELSE value

\* CacheRegion._get_cache_value (region.py:813-825)
_get_cache_value(key, expiration_time, ignore_expiration) ==
    LET value == _get_from_backend(key_mangler(key))
    IN  IF value = Raised THEN Raised
        ELSE _unexpired_value_fn(value, expiration_time, ignore_expiration)

\* what a read call that got these values raises
read_exc(values) == IF Raised \in values THEN "DeserializerError" ELSE "none"

\* a call of a read operation, which returns at once
ReadCall(t, op) ==
    [IdleThread EXCEPT !.pc = "done", !.op = op, !.calls = th[t].calls + 1,
                       !.epoch = hist.invalidations]

\* a read operation called with these arguments
ReadCallWith(t, op, expiration_time, ignore_expiration) ==
    [ReadCall(t, op) EXCEPT !.expiration_time = expiration_time,
                            !.ignore_expiration = ignore_expiration]

\* a get that stores a new value when it finds none
get_regenerating(t, key, expiration_time, ignore_expiration) ==
    LET value == _get_cache_value(key, expiration_time, ignore_expiration)
    IN  /\ th[t].pc \in {"idle", "done"}
        /\ th[t].calls < MaxCalls
        /\ may_start(t)
        /\ th' = [th EXCEPT ![t] =
                     [ReadCallWith(t, "get", expiration_time,
                                   ignore_expiration) EXCEPT
                         !.key = key, !.ret = value.payload]]
        /\ backend' = IF value = NO_VALUE
                      THEN [backend EXCEPT ![key_mangler(key)] = _value(key)]
                      ELSE backend
        /\ UNCHANGED <<now, region_invalidator, region, mutex, runner, hist>>

\* CacheRegion.get (region.py:706-784)
Get(t, key, expiration_time, ignore_expiration) ==
    /\ th[t].pc \in {"idle", "done"}
    /\ th[t].calls < MaxCalls
    /\ may_start(t)
    /\ th' = [th EXCEPT ![t] =
                 [ReadCallWith(t, "get", expiration_time,
                               ignore_expiration) EXCEPT
                     !.key = key,
                     !.ret = _get_cache_value(key, expiration_time,
                                              ignore_expiration).payload,
                     !.exc = read_exc({_get_cache_value(key, expiration_time,
                                                        ignore_expiration)})]]
    /\ UNCHANGED <<now, backend, region_invalidator, region, mutex, runner, hist>>

\* CacheRegion.get_value_metadata (region.py:786-811)
GetValueMetadata(t, key, expiration_time, ignore_expiration) ==
    LET cache_value == _get_cache_value(key, expiration_time, ignore_expiration)
    IN  /\ th[t].pc \in {"idle", "done"}
        /\ th[t].calls < MaxCalls
        /\ may_start(t)
        /\ th' = [th EXCEPT ![t] =
                     [ReadCallWith(t, "get_value_metadata", expiration_time,
                                   ignore_expiration) EXCEPT
                         !.key = key,
                         !.metadata = IF cache_value \in {NO_VALUE, Raised}
                                      THEN <<>>
                                      ELSE <<cache_value>>,
                         !.exc = read_exc({cache_value})]]
        /\ UNCHANGED <<now, backend, region_invalidator, region, mutex, runner, hist>>

\* CacheRegion.get_multi (region.py:853-901)
GetMulti(t, keys, expiration_time, ignore_expiration) ==
    LET values == [n \in 1..Len(keys) |->
                      _get_cache_value(keys[n], expiration_time,
                                       ignore_expiration)]
    IN  /\ th[t].pc \in {"idle", "done"}
        /\ th[t].calls < MaxCalls
        /\ may_start(t)
        /\ th' = [th EXCEPT ![t] =
                     [ReadCallWith(t, "get_multi", expiration_time,
                                   ignore_expiration) EXCEPT
                         !.keys = keys,
                         !.rets = IF Raised \in Range(values) THEN <<>>
                                  ELSE [n \in 1..Len(keys) |->
                                           values[n].payload],
                         !.exc = read_exc(Range(values))]]
    /\ UNCHANGED <<now, backend, region_invalidator, region, mutex, runner, hist>>

----------------------------------------------------------------------------
(* invalidate and get_value step by step: DefaultInvalidationStrategy     *)
(* .invalidate makes two assignments (region.py:217-219) and get_value    *)
(* asks the strategy twice (region.py:1030-1044), with no lock around     *)
(* either                                                                  *)

\* invalidate: self._is_hard_invalidated = bool(hard) (region.py:218)
StartInvalidate(t, hard) ==
    /\ th[t].pc \in {"idle", "done"}
    /\ th[t].calls < MaxCalls
    /\ may_start(t)
    /\ hist.invalidations < MaxInvalidations
    /\ \A u \in DOMAIN th : th[u].pc # "inv_time"
    /\ region_invalidator' =
           [region_invalidator EXCEPT
               !.is_hard = IF hard THEN "True" ELSE "False"]
    /\ th' = [th EXCEPT ![t] =
                 [IdleThread EXCEPT !.pc = "inv_time", !.op = "invalidate",
                                    !.calls = th[t].calls + 1]]
    /\ hist' = [hist EXCEPT !.before = region_invalidator]
    /\ UNCHANGED <<now, backend, region, mutex, runner>>

\* invalidate: self._invalidated = time.time() (region.py:219)
FinishInvalidate(t) ==
    /\ th[t].pc = "inv_time"
    /\ region_invalidator' = [region_invalidator EXCEPT !.invalidated = now]
    /\ th' = [th EXCEPT ![t].pc = "done"]
    /\ hist' = [hist EXCEPT !.invalidations = @ + 1]
    /\ UNCHANGED <<now, backend, region, mutex, runner>>

\* get_value: value = self._get_from_backend(key) and the test
\* self._is_cache_miss(value) (region.py:1031-1034)
GetValueMissCheck(t) ==
    LET r == th[t]
        value == _get_from_backend(lock_key(r))
    IN  /\ r.pc = "enter" /\ r.op = "goc"
        /\ th' = [th EXCEPT ![t] =
                     IF value = Raised
                     THEN lock_entered(r, Got("raise", NoPayload, 0, 0), FALSE)
                     ELSE IF _is_cache_miss(value)
                     THEN lock_entered(r, Got("regen", NoPayload, 0, 0), FALSE)
                     ELSE [r EXCEPT !.pc = "gv_soft", !.gv_value = value]]
        /\ UNCHANGED <<now, backend, region_invalidator, region, mutex, runner, hist>>

\* get_value: the test is_soft_invalidated(ct) and the return
\* (region.py:1035-1044)
GetValueSoftCheck(t) ==
    LET r == th[t]
    IN  /\ r.pc = "gv_soft"
        /\ th' = [th EXCEPT ![t] =
                     lock_entered([r EXCEPT !.pc = "enter"],
                                  soft_checked(r.gv_value, r.expiration_time),
                                  is_soft_invalidated(r.gv_value.ct))]
        /\ UNCHANGED <<now, backend, region_invalidator, region, mutex, runner, hist>>

----------------------------------------------------------------------------
(* The direct writes: set and delete (region.py:1379-1450)                 *)

\* a backend whose delete does nothing
backend_delete_noop(key) == backend

\* backend.delete(key), as delete calls it (region.py:1434): the key is
\* absent afterwards, and deleting an absent key changes nothing
backend_delete(key) == [backend EXCEPT ![key] = NO_VALUE]

\* CacheRegion.set (region.py:1379-1388)
Set(t, key, value) ==
    /\ th[t].pc \in {"idle", "done"}
    /\ th[t].calls < MaxCalls
    /\ may_start(t)
    /\ backend' = [backend EXCEPT
                       ![key_mangler(key)] = backend_formatted(_value(value))]
    /\ th' = [th EXCEPT ![t] = [ReadCall(t, "set") EXCEPT !.key = key]]
    /\ hist' = [hist EXCEPT !.last_op[key] = "set", !.last_set[key] = value]
    /\ UNCHANGED <<now, region_invalidator, region, mutex, runner>>

\* CacheRegion.delete (region.py:1424-1434)
Delete(t, key) ==
    /\ th[t].pc \in {"idle", "done"}
    /\ th[t].calls < MaxCalls
    /\ may_start(t)
    /\ backend' = backend_delete(key_mangler(key))
    /\ th' = [th EXCEPT ![t] =
                 [ReadCall(t, "delete") EXCEPT
                     !.key = key,
                     \* history: the creation time of what was removed
                     !.env_ct = backend[key_mangler(key)].ct]]
    /\ hist' = [hist EXCEPT !.last_op[key] = "delete"]
    /\ UNCHANGED <<now, region_invalidator, region, mutex, runner>>

----------------------------------------------------------------------------
(* Initial states and specifications *)

\* a value stored before the model starts: created `age` ago
Stored(key, age, v) == CachedValue(0 - key, StartTime - age, v)

NotInvalidated == [invalidated |-> None, is_hard |-> "None"]

\* before is the invalidation state the last invalidate call found;
\* last_op and last_set record, by the caller's key, the last set or delete
\* and the payload the last set stored
NoHistory == [creator_calls |-> [k \in Keys |-> 0], payloads |-> 0,
              invalidations |-> 0,
              before |-> [invalidated |-> None, is_hard |-> "None"],
              last_op |-> [k \in Keys |-> "none"],
              last_set |-> [k \in Keys |-> NoPayload],
              \* the configure calls that returned, and those that
              \* raised after the plugin was loaded
              configures |-> 0, failed |-> 0]

InitWith(threads, backends, regions, invalidators) ==
    /\ now = StartTime
    /\ backend \in backends
    /\ region \in regions
    /\ region_invalidator \in invalidators
    /\ mutex = [k \in Keys |-> "free"]
    /\ th = [t \in threads |-> IdleThread]
    /\ runner = [k \in Keys |-> IdleRunner]
    /\ hist = NoHistory

\* what the creator, should_cache_fn and the backend write of a call do:
\* <<should_cache_fn, creator_ok, write_ok>>
Plain == <<"none", TRUE, TRUE>>

Faulty == {<<"none", FALSE, TRUE>>, <<"raise", TRUE, TRUE>>,
           <<"none", TRUE, FALSE>>, <<"false", TRUE, TRUE>>}

\* the steps of a call that is under way
LockStep(t) ==
    \/ LockEnter(t)
    \/ LockTryAcquire(t)
    \/ LockBlockAcquire(t)
    \/ LockReread(t)

GetOrCreateStep(t) ==
    \/ CreatorReturn(t)
    \/ BackendSet(t)
    \/ Release(t)

MultiStep(t) ==
    \/ MultiGet(t)
    \/ MultiCreate(t)
    \/ MultiCreatorReturn(t)
    \/ MultiWrap(t)
    \/ MultiSet(t)
    \/ MultiRelease(t)

RunnerStep(k) ==
    \/ RunnerCreatorReturn(k)
    \/ RunnerSet(k)
    \/ RunnerRelease(k)

----------------------------------------------------------------------------
(* SpecCold: threads call get_or_create on an empty cache; no expiration,  *)
(* no invalidation, no should_cache_fn, creators succeed                   *)

ColdThreads == {"t1", "t2", "t3"}

DefaultRegion ==
    [expiration_time |-> None, key_mangler |-> "none",
     async_creation_runner |-> FALSE,
     serializer |-> FALSE, deserializer |-> FALSE]

InitCold ==
    InitWith(ColdThreads, {[k \in Keys |-> NO_VALUE]}, {DefaultRegion},
             {NotInvalidated})

NextCold ==
    \/ Tick
    \/ \E t \in ColdThreads, k \in Keys :
           StartGetOrCreate(t, k, None, Plain[1], Plain[2], Plain[3])
    \/ \E t \in ColdThreads :
           \/ LockEnter(t)
           \/ LockBlockAcquire(t)
           \/ LockReread(t)
           \/ GetOrCreateStep(t)

SpecCold == InitCold /\ [][NextCold]_vars

\* C1: on an initially empty cache, the creator of a key is invoked at most
\* once in total, and every call that has returned has returned the payload
\* that this one invocation produced (which is the stored one)
C1_CreatorInvokedOnce ==
    \A k \in Keys :
        /\ hist.creator_calls[k] <= 1
        /\ \A t \in ColdThreads :
               (th[t].pc = "done" /\ th[t].key = k) =>
                   /\ th[t].exc = "none"
                   /\ hist.creator_calls[k] = 1
                   /\ th[t].ret >= 1
                   /\ th[t].ret = backend[k].payload

\* three calls for one key have returned: one created the value, one waited
\* for the mutex and then found it, one came later and read it
C1_Witness ==
    \E a, b, c \in ColdThreads :
        /\ \A t \in {a, b, c} : th[t].pc = "done" /\ th[t].key = 1
        /\ th[a].invoked
        /\ ~th[b].invoked /\ th[b].waited
        /\ ~th[c].invoked /\ ~th[c].waited /\ th[c].acquired = <<>>

----------------------------------------------------------------------------
(* Spec: two threads call get_or_create and get_or_create_multi on two     *)
(* keys, one missing and one stored and expired; invalidate() in both      *)
(* modes; with and without the async runner                                *)

Threads == {"t1", "t2"}

MultiKeys == {<<2, 1>>, <<1, 2, 1>>}

ExpiringRegion(runners) ==
    {[expiration_time |-> 1, key_mangler |-> "none",
      async_creation_runner |-> a,
      serializer |-> FALSE, deserializer |-> FALSE] : a \in runners}

OneMissingOneStored ==
    [k \in Keys |-> IF k = 1 THEN NO_VALUE ELSE Stored(k, 1, value_version)]

Init ==
    InitWith(Threads, {OneMissingOneStored}, ExpiringRegion(BOOLEAN),
             {NotInvalidated})

Next ==
    \/ Tick
    \/ \E hard \in BOOLEAN : Invalidate(hard)
    \/ \E t \in Threads, k \in Keys :
           StartGetOrCreate(t, k, None, Plain[1], Plain[2], Plain[3])
    \/ \E t \in Threads, ks \in MultiKeys :
           StartGetOrCreateMulti(t, ks, None, Plain[1], Plain[2], Plain[3])
    \/ \E t \in Threads : LockStep(t) \/ GetOrCreateStep(t) \/ MultiStep(t)
    \/ \E k \in Keys : RunnerStep(k)

Spec == Init /\ [][Next]_vars

\* the creator executions in progress for a (mangled) key: in a
\* get_or_create, in a get_or_create_multi, in the async runner
creators_running(threads, k) ==
    Cardinality({t \in threads :
                    \/ th[t].pc = "creating" /\ lock_key(th[t]) = k
                    \/ th[t].pc = "m_creating" /\ k \in mangled(th[t].mutexes)})
    + (IF runner[k].pc = "creating" THEN 1 ELSE 0)

\* C2: at no time are two creator executions for the same key in progress
C2_OneCreatorAtATime ==
    \A k \in Keys : creators_running(Threads, k) <= 1

\* a get_or_create_multi runs the creator for key 1 while a get_or_create of
\* key 1 waits for the mutex
C2_Witness ==
    \E a, b \in Threads :
        /\ th[a].pc = "m_creating" /\ 1 \in th[a].mutexes
        /\ th[b].op = "goc" /\ th[b].pc = "block_acquire" /\ th[b].key = 1

\* C10: get_or_create_multi goes for the mutexes in strictly ascending key
\* order: the keys whose mutex it has acquired so far are ascending, and all
\* of them sort before the key it is examining
C10_AscendingAcquisition ==
    \A t \in Threads :
        th[t].op = "multi" =>
            /\ \A i, j \in 1..Len(th[t].acquired) :
                   i < j => th[t].acquired[i] < th[t].acquired[j]
            /\ th[t].pc \in {"enter", "try_acquire", "block_acquire", "reread"} =>
                   \A k \in th[t].mutexes : k < lock_orig_key(th[t])

\* a call with the keys 2, 1 holds the mutexes of both keys, acquired 1 then 2
C10_Witness ==
    \E t \in Threads :
        /\ th[t].op = "multi" /\ th[t].keys = <<2, 1>>
        /\ th[t].acquired = <<1, 2>>
        /\ mutex[1] = t /\ mutex[2] = t

\* C3: a get_or_create that read a stored value (expired) and found the
\* mutex held has returned that stored payload at once: without waiting,
\* without acquiring the mutex and without calling its creator; and no
\* get_or_create that read a usable stored value ever waits for the mutex
C3_StaleWhenLocked ==
    \A t \in Threads :
        th[t].op = "goc" =>
            /\ th[t].saw_locked =>
                   /\ th[t].pc = "done" /\ th[t].exc = "none"
                   /\ th[t].env_ct > 0
                   /\ th[t].ret = th[t].value /\ th[t].ret_ct = th[t].env_ct
                   /\ ~th[t].invoked /\ ~th[t].waited
                   /\ th[t].acquired = <<>>
            /\ th[t].pc \in {"block_acquire", "reread"} => th[t].env_ct = 0

\* a get_or_create has returned the expired stored payload of key 2 while
\* another runs the creator for key 2
C3_Witness ==
    \E a, b \in Threads :
        /\ th[a].op = "goc" /\ th[a].pc = "creating" /\ th[a].key = 2
        /\ th[b].op = "goc" /\ th[b].pc = "done" /\ th[b].key = 2
        /\ th[b].saw_locked /\ th[b].ret = Stored(2, 1, value_version).payload
        /\ region_invalidator = NotInvalidated

\* the time of the hard invalidation in force
HardBarrier == region_invalidator.invalidated

\* C4: a get_or_create that started after invalidate(hard=True) (and no
\* invalidate since) never returns a stored payload created before the
\* invalidation: it returns what it created itself, or a stored payload
\* whose envelope is not older than the invalidation; and an envelope not
\* older than the invalidation is not treated as a miss (no blocking)
C4_HardNeverStale ==
    \A t \in Threads :
        (th[t].op = "goc" /\ was_hard_invalidated
            /\ th[t].epoch = hist.invalidations) =>
            /\ (th[t].pc = "done" /\ th[t].exc = "none") =>
                   IF th[t].invoked
                   THEN th[t].ret >= 1 /\ th[t].ret_ct = 0
                   ELSE th[t].ret_ct >= HardBarrier /\ th[t].ret = th[t].value
            /\ th[t].env_ct >= HardBarrier =>
                   th[t].pc \notin {"block_acquire", "reread"}

\* after a hard invalidation a get_or_create found the key's old value
\* unusable, waited for the mutex and returned the value another call had
\* regenerated meanwhile
C4_Witness ==
    \E t \in Threads :
        /\ th[t].op = "goc" /\ th[t].pc = "done" /\ th[t].key = 2
        /\ was_hard_invalidated /\ th[t].epoch = hist.invalidations
        /\ Stored(2, 1, value_version).ct < HardBarrier
        /\ th[t].waited /\ ~th[t].invoked
        /\ th[t].ret >= 1 /\ th[t].ret_ct >= HardBarrier

----------------------------------------------------------------------------
(* SpecSoft: a region with an expiration; key 2 holds a value that is not  *)
(* expired; invalidate(hard=False) was called after it was stored; three   *)
(* threads call get_or_create                                              *)

SoftThreads == {"t1", "t2", "t3"}

SoftRegion ==
    [expiration_time |-> 2, key_mangler |-> "none",
     async_creation_runner |-> FALSE,
     serializer |-> FALSE, deserializer |-> FALSE]

SoftInvalidatedAtStart == [invalidated |-> StartTime, is_hard |-> "False"]

InitSoft ==
    InitWith(SoftThreads, {OneMissingOneStored}, {SoftRegion},
             {SoftInvalidatedAtStart})

NextSoft ==
    \/ Tick
    \/ \E t \in SoftThreads, k \in Keys :
           StartGetOrCreate(t, k, None, Plain[1], Plain[2], Plain[3])
    \/ \E t \in SoftThreads : LockStep(t) \/ GetOrCreateStep(t)

SpecSoft == InitSoft /\ [][NextSoft]_vars

\* the calls that read the envelope stored before the soft invalidation
ReadInvalidated ==
    {t \in SoftThreads :
        th[t].env_ct > 0 /\ th[t].env_ct < region_invalidator.invalidated}

StalePayload == Stored(2, 1, value_version).payload

\* C5 as stated: once all calls have returned, exactly one of those that read
\* the invalidated envelope has called its creator, and the others returned
\* the stale payload without waiting
C5_ExactlyOneRegenerates ==
    (ReadInvalidated # {} /\ \A t \in SoftThreads : th[t].pc = "done") =>
        /\ Cardinality({t \in ReadInvalidated : th[t].invoked}) = 1
        /\ \A t \in ReadInvalidated :
               ~th[t].invoked => th[t].ret = StalePayload /\ ~th[t].waited

\* C5 amended: the calls that read the invalidated envelope never wait; no
\* two creators of the key run at once; each such call either calls its
\* creator and returns the new payload, or found the mutex held and returned
\* the stale payload; and when such a call has returned, the creator of the
\* key has been called at least once
C5_SoftRegeneration ==
    /\ \A k \in Keys : creators_running(SoftThreads, k) <= 1
    /\ \A t \in ReadInvalidated :
           /\ ~th[t].waited
           /\ th[t].pc \notin {"block_acquire", "reread"}
           /\ th[t].pc = "done" =>
                  /\ th[t].exc = "none"
                  /\ \/ th[t].invoked /\ th[t].ret >= 1
                     \/ /\ ~th[t].invoked /\ th[t].saw_locked
                        /\ th[t].ret = StalePayload
    /\ \A t \in ReadInvalidated :
           th[t].pc = "done" => hist.creator_calls[lock_key(th[t])] >= 1

\* three calls read the invalidated envelope: one regenerated, two found
\* the mutex held and returned the stale payload
C5_Witness ==
    \E a, b, c \in SoftThreads :
        /\ {a, b, c} = ReadInvalidated /\ a # b /\ b # c /\ a # c
        /\ \A t \in SoftThreads : th[t].pc = "done"
        /\ th[a].invoked /\ th[a].ret >= 1
        /\ \A t \in {b, c} : th[t].saw_locked /\ th[t].ret = StalePayload

----------------------------------------------------------------------------
(* SpecFaults: a region without expiration and without async runner; key 1 *)
(* is missing, key 2 is stored; invalidate(hard=False) may be called; the  *)
(* calls pass no expiration, -1 or 1, and their creator, should_cache_fn   *)
(* or backend write may raise                                              *)

Profiles == Faulty \cup {Plain}

InitFaults ==
    InitWith(Threads, {OneMissingOneStored}, {DefaultRegion}, {NotInvalidated})

NextFaults ==
    \/ Tick
    \/ Invalidate(FALSE)
    \/ \E t \in Threads, k \in Keys, e \in {None, NoExpiration, 1}, p \in Profiles :
           StartGetOrCreate(t, k, e, p[1], p[2], p[3])
    \/ \E t \in Threads, e \in {None, NoExpiration}, p \in Profiles :
           StartGetOrCreateMulti(t, <<2, 1>>, e, p[1], p[2], p[3])
    \/ \E t \in Threads : LockStep(t) \/ GetOrCreateStep(t) \/ MultiStep(t)

SpecFaults == InitFaults /\ [][NextFaults]_vars

\* the calls without effective expiration that began after invalidate(hard=False)
NullExpirationAfterSoft ==
    {t \in Threads :
        /\ th[t].op \in {"goc", "multi"}
        /\ th[t].expiration_time = None
        /\ region_invalidator.is_hard = "False"
        /\ th[t].epoch = hist.invalidations}

SoftError == "SoftInvalidationError"

\* C6 as stated: such a call, when it read a soft-invalidated envelope or
\* called its creator, ends with the soft-invalidation error and has written
\* nothing
C6_SoftNeedsExpiration ==
    \A t \in NullExpirationAfterSoft :
        (th[t].pc = "done" /\ (th[t].soft_seen \/ th[t].invoked)) =>
            th[t].exc = SoftError /\ th[t].wrote = {}

\* C6 amended: such a call never writes to the backend; when it read a
\* soft-invalidated envelope it ends with the soft-invalidation error without
\* calling a creator for that key; when it called its creator it ends with
\* the soft-invalidation error if the creator returned and with the creator's
\* own error if the creator raised; it returns normally only when it neither
\* read a soft-invalidated envelope nor called its creator
C6_SoftNeedsExpirationAfterCreator ==
    \A t \in NullExpirationAfterSoft :
        /\ th[t].wrote = {}
        /\ th[t].pc \notin {"set", "m_set"}
        /\ th[t].pc = "done" =>
               /\ th[t].soft_seen => th[t].exc = SoftError
               /\ (th[t].invoked /\ th[t].creator_ok) => th[t].exc = SoftError
               /\ (th[t].invoked /\ ~th[t].creator_ok) => th[t].exc = "CreatorError"
               /\ th[t].exc = "none" => ~th[t].soft_seen /\ ~th[t].invoked
               /\ th[t].exc # "none" => th[t].ret = NoPayload /\ th[t].rets = <<>>

\* a get_or_create that generated and a get_or_create_multi that read a
\* soft-invalidated envelope both ended with the error
C6_Witness ==
    \E t, u \in NullExpirationAfterSoft :
        /\ th[t].op = "goc" /\ th[t].pc = "done" /\ th[t].invoked
        /\ th[t].creator_ok /\ th[t].exc = SoftError
        /\ th[u].op = "multi" /\ th[u].pc = "done" /\ th[u].soft_seen
        /\ th[u].exc = SoftError

\* C7: a get_or_create call (no async runner) holds a mutex it acquired only
\* between the Lock's acquire and its finally, and only its key's; once the
\* call has returned or raised, it holds none of them
C7_SyncReleasesMutex ==
    \A t \in Threads :
        th[t].op = "goc" =>
            \A k \in mangled(Range(th[t].acquired)) :
                mutex[k] = t =>
                    /\ th[t].pc \in {"reread", "creating", "set", "release"}
                    /\ k = lock_key(th[t])

\* two get_or_create calls acquired the mutex and raised, one from the backend
\* write or should_cache_fn, one from the creator or the soft-invalidation check
C7_Witness ==
    \E t, u \in Threads :
        /\ th[t].op = "goc" /\ th[t].pc = "done" /\ th[t].acquired # <<>>
        /\ th[t].exc \in {"BackendError", "ShouldCacheError"}
        /\ th[u].op = "goc" /\ th[u].pc = "done" /\ th[u].acquired # <<>>
        /\ th[u].exc \in {"CreatorError", SoftError}
        /\ \A k \in Keys : mutex[k] = "free"

\* C8 as stated: once get_or_create_multi has returned or raised, none of
\* the mutexes the call acquired is still held by its thread
C8_MultiReleasesAll ==
    \A t \in Threads :
        (th[t].op = "multi" /\ th[t].pc = "done") =>
            \A k \in mangled(Range(th[t].acquired)) : mutex[k] # t

----------------------------------------------------------------------------
(* SpecFair: key 1 is missing, key 2 is stored; the region has no          *)
(* expiration and may have been soft-invalidated after key 2 was stored;   *)
(* two threads call get_or_create and get_or_create_multi, creators        *)
(* return; a thread inside a call that can take a step eventually takes it *)

InitFair ==
    InitWith(Threads, {OneMissingOneStored}, {DefaultRegion},
             {NotInvalidated, SoftInvalidatedAtStart})

ThreadStep(t) == LockStep(t) \/ GetOrCreateStep(t) \/ MultiStep(t)

NextFair ==
    \/ Tick
    \/ \E t \in Threads, k \in Keys, e \in {None, 1} :
           StartGetOrCreate(t, k, e, Plain[1], Plain[2], Plain[3])
    \/ \E t \in Threads, keys \in MultiKeys :
           StartGetOrCreateMulti(t, keys, None, Plain[1], Plain[2], Plain[3])
    \/ \E t \in Threads : ThreadStep(t)

Fairness == \A t \in Threads : WF_vars(ThreadStep(t))

SpecFair == InitFair /\ [][NextFair]_vars /\ Fairness

\* C9 as stated: every call that was begun eventually returns or raises
C9_EveryCallReturns ==
    \A t \in Threads :
        (th[t].pc \notin {"idle", "done"}) ~> (th[t].pc = "done")

----------------------------------------------------------------------------
(* Creator failure (SpecFaults) *)

\* the calls whose creator was called and raised
CreatorFailed ==
    {t \in Threads : th[t].invoked /\ ~th[t].creator_ok
                     /\ th[t].pc \notin {"creating", "m_creating"}}

\* C11: when the creator raises inside get_or_create or get_or_create_multi,
\* the call ends with the creator's error, returns no value, and has written
\* no envelope for any key
C11_CreatorFailureWritesNothing ==
    \A t \in CreatorFailed :
        /\ th[t].exc = "CreatorError"
        /\ th[t].wrote = {}
        /\ th[t].pc \in {"release", "m_release", "done"}
        /\ th[t].pc = "done" => th[t].ret = NoPayload /\ th[t].rets = <<>>

\* a get_or_create and a get_or_create_multi whose creator raised are both
\* done, and the backend is as it was at the start
C11_Witness ==
    \E t, u \in CreatorFailed :
        /\ th[t].op = "goc" /\ th[t].pc = "done"
        /\ th[u].op = "multi" /\ th[u].pc = "done"
        /\ backend = OneMissingOneStored

----------------------------------------------------------------------------
(* SpecCache: a region with an expiration; key 1 is missing, key 2 is      *)
(* stored and expired; the calls pass no should_cache_fn, one that always  *)
(* declines, or one that accepts the even payloads                         *)

CacheFns == {"none", "false", "even"}

InitCache ==
    InitWith(Threads, {OneMissingOneStored}, ExpiringRegion({FALSE}),
             {NotInvalidated})

NextCache ==
    \/ Tick
    \/ \E t \in Threads, k \in Keys, f \in CacheFns :
           StartGetOrCreate(t, k, None, f, TRUE, TRUE)
    \/ \E t \in Threads, keys \in MultiKeys, f \in CacheFns :
           StartGetOrCreateMulti(t, keys, None, f, TRUE, TRUE)
    \/ \E t \in Threads : ThreadStep(t)

SpecCache == InitCache /\ [][NextCache]_vars

\* the position of a key in a sequence without repetitions
IndexOf(seq, k) == CHOOSE j \in 1..Len(seq) : seq[j] = k

\* the value the creator of a get_or_create_multi call returned for a key
created_for(r, k) == r.new_values[IndexOf(keys_to_get(r), k)]

\* what the caller's should_cache_fn answers for a payload: true unless it is
\* the declining one, or the one for even payloads and the payload is odd
Accepts(fn, payload) ==
    ~(fn = "false" \/ (fn = "even" /\ payload % 2 = 1))

\* C12: a call that created values returns each of them to the caller and
\* has written exactly the keys for whose value should_cache_fn is absent or
\* returns true; for a value it declines, no write for that key was made
C12_ShouldCacheFilters ==
    \A t \in Threads :
        (th[t].pc = "done" /\ th[t].exc = "none" /\ th[t].invoked) =>
            IF th[t].op = "goc"
            THEN /\ th[t].ret = th[t].created.payload /\ th[t].ret >= 1
                 /\ th[t].wrote =
                        IF Accepts(th[t].should_cache_fn, th[t].ret)
                        THEN {lock_key(th[t])} ELSE {}
            ELSE /\ \A n \in 1..Len(th[t].keys) :
                        th[t].keys[n] \in th[t].mutexes =>
                            th[t].rets[n] = created_for(th[t], th[t].keys[n])
                 /\ th[t].wrote =
                        {key_mangler(k) : k \in
                            {x \in th[t].mutexes :
                                Accepts(th[t].should_cache_fn,
                                        created_for(th[t], x))}}

\* a get_or_create_multi created both keys, returned both values, wrote the
\* one with the even payload and left the other key as it was stored
C12_Witness ==
    \E t \in Threads :
        /\ th[t].op = "multi" /\ th[t].pc = "done" /\ th[t].exc = "none"
        /\ th[t].should_cache_fn = "even" /\ th[t].mutexes = Keys
        /\ th[t].keys = <<2, 1>>
        /\ th[t].rets = <<2, 1>> /\ th[t].wrote = {2}
        /\ backend[1] = NO_VALUE /\ backend[2].payload = 2

----------------------------------------------------------------------------
(* Write before release (Spec) *)

\* the payload a call wrote for a mangled key
written_payload(r, k) ==
    IF r.op = "multi" THEN r.values_w_created[k].payload ELSE r.created.payload

\* a call writes a key only while its thread holds the key's mutex, and
\* still holds it after the write
WriteUnderMutex ==
    \A t \in Threads :
        \A k \in Keys :
            (k \in th'[t].wrote /\ ~(k \in th[t].wrote)) =>
                mutex[k] = t /\ mutex'[k] = t

\* a caller that holds a key's mutex and reads again finds in the backend
\* what a producer that has returned wrote, or something newer
ReadsWhatWasWritten ==
    \A t, u \in Threads :
        (/\ t # u
         /\ th[u].pc = "reread"
         /\ th[t].pc = "done"
         /\ lock_key(th[u]) \in th[t].wrote) =>
            backend[lock_key(th[u])].payload
                >= written_payload(th[t], lock_key(th[u]))

\* C13: the backend write of a regenerated key is made while the producer
\* holds the key's mutex, before it releases it; a caller that acquires the
\* mutex afterwards reads the new envelope (or a newer one)
C13_WriteBeforeRelease == []ReadsWhatWasWritten /\ [][WriteUnderMutex]_vars

\* a get_or_create_multi wrote key 1 and returned; a caller that waited for
\* the mutex of key 1 now holds it and finds that envelope in the backend
C13_Witness ==
    \E t, u \in Threads :
        /\ th[t].op = "multi" /\ th[t].pc = "done" /\ 1 \in th[t].wrote
        /\ th[u].pc = "reread" /\ th[u].waited /\ lock_key(th[u]) = 1
        /\ mutex[1] = u
        /\ backend[1].payload = written_payload(th[t], 1)

----------------------------------------------------------------------------
(* SpecExpired: a region with an expiration; key 2 holds a value that is   *)
(* older than the expiration; three threads call get_or_create             *)

InitExpired ==
    InitWith(SoftThreads, {OneMissingOneStored}, ExpiringRegion({FALSE}),
             {NotInvalidated})

SpecExpired == InitExpired /\ [][NextSoft]_vars

\* the calls that read the expired value stored at the start
ReadExpired ==
    {t \in SoftThreads :
        th[t].op = "goc" /\ th[t].env_ct = Stored(2, 1, value_version).ct}

\* C14 as stated: once the calls that read the expired value have all
\* returned, exactly one of them has called the creator and every one of
\* them returned a newly created value, none the expired one
C14_AllReturnNewValue ==
    (ReadExpired # {} /\ \A t \in SoftThreads : th[t].pc = "done") =>
        /\ Cardinality({t \in ReadExpired : th[t].invoked}) = 1
        /\ \A t \in ReadExpired : th[t].ret >= 1

\* C14 amended: no two creators of the key run at once; a call that read
\* the expired value never waits: it either takes the mutex, calls the
\* creator and returns the new value, or finds the mutex held and returns
\* the expired value; when such a call has returned, the creator of the key
\* has been called at least once
C14_ExpiredHit ==
    /\ \A k \in Keys : creators_running(SoftThreads, k) <= 1
    /\ \A t \in ReadExpired :
           /\ ~th[t].waited
           /\ th[t].pc \notin {"block_acquire", "reread"}
           /\ th[t].pc = "done" =>
                  /\ th[t].exc = "none"
                  /\ IF th[t].invoked
                     THEN th[t].ret >= 1 /\ ~th[t].saw_locked
                     ELSE th[t].saw_locked /\ th[t].ret = StalePayload
                  /\ hist.creator_calls[lock_key(th[t])] >= 1

\* three calls read the expired value: one regenerated it, two found the
\* mutex held and returned the expired value
C14_Witness ==
    \E a, b, c \in SoftThreads :
        /\ {a, b, c} = ReadExpired /\ a # b /\ b # c /\ a # c
        /\ \A t \in SoftThreads : th[t].pc = "done"
        /\ th[a].invoked /\ th[a].ret >= 1
        /\ \A t \in {b, c} : th[t].saw_locked /\ th[t].ret = StalePayload
        /\ hist.creator_calls[2] = 1

----------------------------------------------------------------------------
(* SpecMultiCold: an empty cache, no expiration, no invalidation; threads  *)
(* call get_or_create_multi on key lists that share keys                   *)

NothingStored == [k \in Keys |-> NO_VALUE]

InitMultiCold ==
    InitWith(Threads, {NothingStored}, {DefaultRegion}, {NotInvalidated})

NextMultiCold ==
    \/ Tick
    \/ \E t \in Threads, keys \in MultiKeys \cup {<<1>>} :
           StartGetOrCreateMulti(t, keys, None, Plain[1], Plain[2], Plain[3])
    \/ \E t \in Threads : LockEnter(t)
    \/ \E t \in Threads : LockBlockAcquire(t)
    \/ \E t \in Threads : LockReread(t)
    \/ \E t \in Threads : MultiStep(t)

SpecMultiCold == InitMultiCold /\ [][NextMultiCold]_vars

\* C15 as stated: a missing key shared by concurrent get_or_create_multi
\* calls is passed to a creator by at most one of them, and the calls that
\* have returned all return one and the same value for it
C15_SharedKeyCreatedOnce ==
    /\ \A k \in Keys : hist.creator_calls[k] <= 1
    /\ \A t, u \in Threads :
           (th[t].pc = "done" /\ th[u].pc = "done") =>
               \A n \in 1..Len(th[t].keys), m \in 1..Len(th[u].keys) :
                   th[t].keys[n] = th[u].keys[m] =>
                       th[t].rets[n] = th[u].rets[m]

----------------------------------------------------------------------------
(* The keys get_or_create_multi passes to its creator (Spec) *)

\* whether the envelope a get_or_create_multi call read for a key is absent,
\* of another version, invalidated or expired
StaleRead(r, k) ==
    LET v == r.values[key_mangler(k)]
    IN  \/ v = NO_VALUE
        \/ v.v # value_version
        \/ region_invalidator.invalidated # None
               /\ v.ct < region_invalidator.invalidated
        \/ r.expiration_time # None /\ now - v.ct >= r.expiration_time

\* the keys passed to the creator are the keys whose mutex the call
\* acquired, in ascending order and each once, and each was read as absent
\* or stale; the call holds their mutexes until its finally; without such a
\* key the creator is not called
CreatorKeys ==
    \A t \in Threads :
        th[t].op = "multi" =>
            /\ th[t].invoked => th[t].mutexes # {}
            /\ th[t].pc \in {"m_creating", "m_wrap", "m_set", "m_release"} =>
                   /\ th[t].invoked
                   /\ Range(keys_to_get(th[t])) = Range(th[t].acquired)
                   /\ Len(keys_to_get(th[t])) = Cardinality(Range(th[t].acquired))
                   /\ \A i, j \in 1..Len(keys_to_get(th[t])) :
                          i < j => keys_to_get(th[t])[i] < keys_to_get(th[t])[j]
                   /\ \A k \in Range(keys_to_get(th[t])) :
                          /\ k \in Range(th[t].keys)
                          /\ th[t].pc # "m_release" => StaleRead(th[t], k)
                          /\ mutex[key_mangler(k)] = t
            /\ (th[t].pc = "done" /\ th[t].exc = "none" /\ ~th[t].invoked) =>
                   th[t].acquired = <<>>

\* the creator of a get_or_create_multi call is called once
CreatorCalledOnce ==
    \A t \in Threads :
        (th'[t].pc = "m_creating" /\ th[t].pc # "m_creating") =>
            /\ th[t].pc = "m_create" /\ ~th[t].invoked
            /\ \A k \in Keys :
                   hist'.creator_calls[k] =
                       hist.creator_calls[k]
                           + (IF k \in mangled(Range(th[t].acquired)) THEN 1 ELSE 0)

----------------------------------------------------------------------------
(* What get_or_create_multi returns (Spec) *)

\* C17: get_or_create_multi returns one payload per element of the caller's
\* key sequence, in the caller's order, also for unsorted and repeated keys:
\* element n is the value the creator returned for keys[n] when that key was
\* regenerated, else the payload the call read for keys[n]
C17_ResultInCallerOrder ==
    \A t \in Threads :
        (th[t].op = "multi" /\ th[t].pc = "done" /\ th[t].exc = "none") =>
            /\ Len(th[t].rets) = Len(th[t].keys)
            /\ \A n \in 1..Len(th[t].keys) :
                   th[t].rets[n] =
                       IF th[t].keys[n] \in th[t].mutexes
                       THEN created_for(th[t], th[t].keys[n])
                       ELSE th[t].values[key_mangler(th[t].keys[n])].payload

\* a call given <<2, 1>> regenerated both keys and returned the value of
\* key 2 first; a call given <<1, 2, 1>> returned the value of key 1 in the
\* first and third place and that of key 2 in the second
C17_Witness ==
    \E t, u \in Threads :
        /\ th[t].op = "multi" /\ th[t].pc = "done" /\ th[t].exc = "none"
        /\ th[t].keys = <<2, 1>> /\ th[t].mutexes = {1, 2}
        /\ th[t].rets = <<created_for(th[t], 2), created_for(th[t], 1)>>
        /\ created_for(th[t], 1) # created_for(th[t], 2)
        /\ th[u].op = "multi" /\ th[u].pc = "done" /\ th[u].exc = "none"
        /\ th[u].keys = <<1, 2, 1>>
        /\ th[u].rets[1] = th[u].rets[3] /\ th[u].rets[1] # th[u].rets[2]

----------------------------------------------------------------------------
(* The creation times of the envelopes of one get_or_create_multi (Spec) *)

\* the calls that have wrapped all the values their creator returned
Wrapped ==
    {t \in Threads :
        /\ th[t].op = "multi" /\ th[t].invoked
        /\ th[t].pc \in {"m_set", "m_release", "done"}
        /\ th[t].exc \in {"none", "BackendError"}}

\* C18 as stated: the envelopes of one get_or_create_multi call all carry
\* the same creation time
C18_OneCreationTime ==
    \A t \in Wrapped :
        \A k, l \in mangled(th[t].mutexes) :
            th[t].values_w_created[k].ct = th[t].values_w_created[l].ct

\* the creation times of the envelopes of one call do not decrease in the
\* order of the sorted keys and are not later than the clock; what the call
\* wrote to the backend is the envelope as it was wrapped
WrappedInOrder ==
    \A t \in Wrapped :
        /\ \A i, j \in 1..Len(keys_to_get(th[t])) :
               i < j =>
                   th[t].values_w_created[key_mangler(keys_to_get(th[t])[i])].ct
                     <= th[t].values_w_created[key_mangler(keys_to_get(th[t])[j])].ct
        /\ \A k \in mangled(th[t].mutexes) :
               /\ th[t].values_w_created[k].ct <= now
               /\ th[t].values_w_created[k].v = value_version
               /\ (k \in th[t].wrote /\ mutex[k] = t) =>
                      backend[k] = th[t].values_w_created[k]

\* each value is wrapped with the clock reading of the moment it is wrapped
WrapsWithClock ==
    \A t \in Threads :
        (th[t].pc = "m_wrap" /\ th'[t] # th[t]) =>
            th'[t].values_w_created[key_mangler(keys_to_get(th[t])[th[t].i])].ct
                = now

\* C18 amended: each envelope of a get_or_create_multi call carries the
\* clock reading taken when its value is wrapped; the values are wrapped one
\* after the other in sorted key order, so the creation times of one call
\* increase with the keys and differ when the clock advances in between
C18_CreationTimePerValue == []WrappedInOrder /\ [][WrapsWithClock]_vars

\* a call wrote two envelopes with different creation times
C18_Witness ==
    \E t \in Wrapped :
        /\ th[t].pc = "done" /\ th[t].wrote = {1, 2}
        /\ th[t].values_w_created[1].ct < th[t].values_w_created[2].ct

----------------------------------------------------------------------------
(* SpecVersion: no expiration, no invalidation; key 1 holds an envelope    *)
(* written under the previous schema version, key 2 one of the current     *)
(* version; threads call get_or_create (creator, should_cache_fn or the    *)
(* backend write may fail) and the read operations                         *)

OldVersion == Stored(1, 0, value_version - 1)

OneOldVersion ==
    [k \in Keys |-> IF k = 1 THEN OldVersion ELSE Stored(k, 0, value_version)]

InitVersion ==
    InitWith(Threads, {OneOldVersion}, {DefaultRegion}, {NotInvalidated})

NextVersion ==
    \/ Tick
    \/ \E t \in Threads, k \in Keys, p \in Profiles :
           StartGetOrCreate(t, k, None, p[1], p[2], p[3])
    \/ \E t \in Threads : LockEnter(t)
    \/ \E t \in Threads : LockBlockAcquire(t)
    \/ \E t \in Threads : LockReread(t)
    \/ \E t \in Threads : GetOrCreateStep(t)
    \/ \E t \in Threads, k \in Keys, e \in {None, 1}, ig \in BOOLEAN :
           Get(t, k, e, ig)
    \/ \E t \in Threads, k \in Keys, e \in {None, 1}, ig \in BOOLEAN :
           GetValueMetadata(t, k, e, ig)
    \/ \E t \in Threads, keys \in MultiKeys, e \in {None, 1}, ig \in BOOLEAN :
           GetMulti(t, keys, e, ig)

SpecVersion == InitVersion /\ [][NextVersion]_vars

\* C19: while the envelope of a key has another schema version,
\* get_or_create treats the key as missing: it never returns the stored
\* payload, it waits for the mutex and calls the creator under it; the old
\* envelope is not deleted, it stays until a regenerated one overwrites it
C19_VersionMismatchIsMiss ==
    /\ backend[1] # NO_VALUE
    /\ backend[1] = OldVersion \/ (backend[1].v = value_version /\ backend[1].payload >= 1)
    /\ \A t \in Threads :
           (th[t].op = "goc" /\ th[t].key = 1) =>
               /\ th[t].ret # OldVersion.payload /\ th[t].value # OldVersion.payload
               /\ th[t].pc # "try_acquire"
               /\ th[t].pc \in {"creating", "set", "release"} =>
                      mutex[1] = t /\ th[t].invoked
               /\ (th[t].pc = "done" /\ th[t].exc = "none") =>
                      /\ th[t].ret >= 1
                      /\ th[t].invoked \/ th[t].ret = backend[1].payload
                      /\ 1 \in th[t].wrote =>
                             backend[1] = th[t].created
               /\ (th[t].pc = "done" /\ th[t].wrote = {} /\ th[t].invoked
                      /\ hist.creator_calls[1] = 1) =>
                      backend[1] = OldVersion

\* one call regenerated key 1 and overwrote the old envelope; another call's
\* creator had failed before, which left the old envelope in place
C19_Witness ==
    \E t, u \in Threads :
        /\ th[t].op = "goc" /\ th[t].key = 1 /\ th[t].pc = "done"
        /\ th[t].exc = "none" /\ th[t].invoked /\ backend[1] = th[t].created
        /\ th[t].ret = backend[1].payload /\ backend[1].v = value_version
        /\ th[u].op = "goc" /\ th[u].key = 1 /\ th[u].pc = "done"
        /\ th[u].exc = "CreatorError"

\* C20 as stated: get, get_multi and get_value_metadata never return the
\* payload or the envelope of a stored envelope of another schema version
C20_ReadsSkipOldVersion ==
    \A t \in Threads :
        /\ th[t].op = "get" => th[t].ret # OldVersion.payload
        /\ th[t].op = "get_multi" =>
               \A n \in 1..Len(th[t].rets) : th[t].rets[n] # OldVersion.payload
        /\ th[t].op = "get_value_metadata" => th[t].metadata # <<OldVersion>>

----------------------------------------------------------------------------
(* set, delete and the read operations, with and without a key mangler,   *)
(* with and without a configured expiration, around an invalidation       *)

SetThreads == {"t1", "t2"}

\* the payloads handed to set: the null payload and another one
SetPayloads == {None, 3}

\* the expiration_time arguments of the read operations
ReadExpirations == {None, NoExpiration, 0, 1}

SetRegions ==
    {[expiration_time |-> e, key_mangler |-> m,
      async_creation_runner |-> FALSE,
      serializer |-> FALSE, deserializer |-> FALSE] :
         e \in {None, 1}, m \in {"none", "rev"}}

\* one value stored two ticks ago, the other key absent
OneOldStored ==
    [k \in Keys |-> IF k = 1 THEN Stored(k, 2, value_version) ELSE NO_VALUE]

InitSet ==
    InitWith(SetThreads, {NothingStored, OneOldStored}, SetRegions,
             {NotInvalidated})

NextSet ==
    \/ Tick
    \/ \E hard \in BOOLEAN : Invalidate(hard)
    \/ \E t \in SetThreads, k \in Keys, v \in SetPayloads : Set(t, k, v)
    \/ \E t \in SetThreads, k \in Keys : Delete(t, k)
    \/ \E t \in SetThreads, k \in Keys, e \in ReadExpirations,
          ig \in BOOLEAN : Get(t, k, e, ig)
    \/ \E t \in SetThreads, k \in Keys, e \in ReadExpirations,
          ig \in BOOLEAN : GetValueMetadata(t, k, e, ig)
    \/ \E t \in SetThreads, keys \in MultiKeys, e \in ReadExpirations,
          ig \in BOOLEAN : GetMulti(t, keys, e, ig)

SpecSet == InitSet /\ [][NextSet]_vars

\* thread t makes a call of operation op in this step
Calls(t, op) == th'[t].op = op /\ th'[t].calls = th[t].calls + 1

\* C21: a get with ignore_expiration=True of a key whose last write was a
\* set returns the payload that set stored, the null payload included,
\* whatever the key mangler, the expiration and the invalidation are.
C21_SetThenGet ==
    [][\A t \in DOMAIN th :
          (/\ Calls(t, "get")
           /\ th'[t].ignore_expiration
           /\ hist.last_op[th'[t].key] = "set")
          => th'[t].ret = hist.last_set[th'[t].key]]_vars

\* the null payload, set under a key mangler before an invalidation, has
\* been returned by a get that ignores the expiration
C21_Witness ==
    \E t \in DOMAIN th :
        /\ th[t].op = "get" /\ th[t].ignore_expiration
        /\ th[t].ret = None
        /\ region.key_mangler = "rev"
        /\ region.expiration_time # None
        /\ hist.last_op[th[t].key] = "set"
        /\ backend[key_mangler(th[t].key)].payload = None
        /\ is_invalidated(backend[key_mangler(th[t].key)].ct)
        /\ now - backend[key_mangler(th[t].key)].ct > 0

\* C22: a get of a key whose last write was a delete returns NO_VALUE; a
\* delete raises nothing, leaves the key absent and the other keys as they
\* were, so that deleting an absent key changes nothing.
C22_DeleteThenGet ==
    [][\A t \in DOMAIN th :
          /\ (Calls(t, "get") /\ hist.last_op[th'[t].key] = "delete")
             => th'[t].ret = NoPayload
          /\ Calls(t, "delete")
             => /\ th'[t].exc = "none"
                /\ backend'[key_mangler(th'[t].key)] = NO_VALUE
                /\ \A k \in Keys \ {key_mangler(th'[t].key)} :
                       backend'[k] = backend[k]
                /\ backend[key_mangler(th'[t].key)] = NO_VALUE
                   => backend' = backend]_vars

\* a stored value was deleted, and a get that ignores the expiration then
\* returned NO_VALUE
C22_Witness ==
    \E t, u \in DOMAIN th :
        /\ th[t].op = "delete" /\ th[t].env_ct > 0
        /\ th[u].op = "get" /\ th[u].key = th[t].key
        /\ th[u].ignore_expiration
        /\ th[u].ret = NoPayload
        /\ hist.last_op[th[t].key] = "delete"
        /\ region.key_mangler = "rev"

\* the envelope stored for the caller's key
StoredFor(key) == backend[key_mangler(key)]

\* the expiration a read applies: the call's, else the region's
ReadExpiration(r) ==
    IF r.expiration_time = None THEN region.expiration_time
    ELSE r.expiration_time

\* the envelope is older than the invalidation barrier, soft or hard
BehindBarrier(value) ==
    /\ region_invalidator.invalidated # None
    /\ value.ct < region_invalidator.invalidated

\* C23: a get returns NO_VALUE when the age of the envelope exceeds the
\* expiration of the call, else of the region, or when the envelope is older
\* than the invalidation barrier, soft or hard; with ignore_expiration=True
\* it returns the stored payload in both cases.
C23_GetFiltersStale ==
    [][\A t \in DOMAIN th :
          Calls(t, "get") =>
              LET r == th'[t]
                  value == StoredFor(r.key)
                  e == ReadExpiration(r)
              IN  /\ r.ignore_expiration => r.ret = value.payload
                  /\ (/\ ~r.ignore_expiration
                      /\ value # NO_VALUE
                      /\ \/ e # None /\ e >= 0 /\ now - value.ct > e
                         \/ BehindBarrier(value))
                     => r.ret = NoPayload]_vars

\* a get has returned NO_VALUE for a value that is set, not expired and
\* behind a soft invalidation barrier
C23_Witness ==
    \E t \in DOMAIN th :
        /\ th[t].op = "get" /\ ~th[t].ignore_expiration
        /\ th[t].ret = NoPayload
        /\ th[t].expiration_time = None
        /\ hist.last_op[th[t].key] = "set"
        /\ StoredFor(th[t].key) # NO_VALUE
        /\ now - StoredFor(th[t].key).ct <= region.expiration_time
        /\ region.expiration_time # None
        /\ was_soft_invalidated
        /\ BehindBarrier(StoredFor(th[t].key))

ReadOps == {"get", "get_multi", "get_value_metadata"}

\* the keys a read call was given
ReadKeys(r) == IF r.op = "get_multi" THEN Range(r.keys) ELSE {r.key}

\* C24: a step of get, get_multi or get_value_metadata leaves the backend,
\* the mutexes, the runners and the count of creator calls as they were,
\* and the call has invoked no creator and acquired no mutex.
C24_ReadsDoNotRegenerate ==
    [][\A t \in DOMAIN th :
          (\E op \in ReadOps : Calls(t, op))
          => /\ backend' = backend
             /\ mutex' = mutex
             /\ runner' = runner
             /\ hist'.creator_calls = hist.creator_calls
             /\ ~th'[t].invoked
             /\ th'[t].acquired = <<>>
             /\ th'[t].wrote = {}]_vars

\* a get_multi has found a key missing and a get_value_metadata a stale
\* value, and no creator has been called and no mutex is held
C24_Witness ==
    /\ \E t, u \in DOMAIN th :
           /\ th[t].op = "get_multi"
           /\ \E n \in 1..Len(th[t].keys) :
                  /\ StoredFor(th[t].keys[n]) = NO_VALUE
                  /\ th[t].rets[n] = NoPayload
           /\ th[u].op = "get_value_metadata"
           /\ th[u].metadata = <<>>
           /\ StoredFor(th[u].key) # NO_VALUE
    /\ \A k \in Keys : hist.creator_calls[k] = 0 /\ mutex[k] = "free"

\* C26: a get called with expiration_time=-1 returns the payload of a
\* stored value that is not behind the invalidation barrier, however old
\* the value is.
C26_SentinelDisablesReadExpiry ==
    [][\A t \in DOMAIN th :
          (/\ Calls(t, "get")
           /\ ~th'[t].ignore_expiration
           /\ th'[t].expiration_time = NoExpiration
           /\ StoredFor(th'[t].key) # NO_VALUE
           /\ ~BehindBarrier(StoredFor(th'[t].key)))
          => th'[t].ret = StoredFor(th'[t].key).payload]_vars

----------------------------------------------------------------------------
(* get_or_create and get_or_create_multi with expiration_time=-1, on a    *)
(* region with an expiration, over values older than that expiration      *)

BothOldStored == [k \in Keys |-> Stored(k, 2, value_version)]

InitSentinel ==
    InitWith(Threads, {BothOldStored}, ExpiringRegion({FALSE}),
             {NotInvalidated})

NextSentinel ==
    \/ Tick
    \/ Invalidate(TRUE)
    \/ \E t \in Threads, k \in Keys, e \in {None, NoExpiration} :
           StartGetOrCreate(t, k, e, Plain[1], Plain[2], Plain[3])
    \/ \E t \in Threads, keys \in MultiKeys, e \in {None, NoExpiration} :
           StartGetOrCreateMulti(t, keys, e, Plain[1], Plain[2], Plain[3])
    \/ \E t \in Threads : LockStep(t) \/ GetOrCreateStep(t) \/ MultiStep(t)

SpecSentinel == InitSentinel /\ [][NextSentinel]_vars

\* a get_or_create called with -1 that has read a stored value which is not
\* invalidated has returned that value without calling the creator
SentinelHit ==
    \A t \in DOMAIN th :
        (/\ th[t].op = "goc"
         /\ th[t].expiration_arg = NoExpiration
         /\ th[t].env_ct > 0
         /\ ~th[t].soft_seen)
        => /\ th[t].pc = "done"
           /\ ~th[t].invoked
           /\ th[t].exc = "none"
           /\ th[t].ret_ct = th[t].env_ct

\* a get_or_create_multi called with -1 asks the creator only for keys that
\* were missing or are behind the invalidation barrier (until it has
\* written, when values holds what it created)
SentinelMultiHit ==
    \A t \in DOMAIN th :
        (/\ th[t].op = "multi"
         /\ th[t].expiration_arg = NoExpiration
         /\ th[t].pc \notin {"m_release", "done"})
        => \A k \in th[t].mutexes :
               \/ th[t].values[key_mangler(k)] = NO_VALUE
               \/ BehindBarrier(th[t].values[key_mangler(k)])

\* a call without the argument runs with the expiration of the region,
\* which no call changes
RegionExpirationApplies ==
    \A t \in DOMAIN th :
        (th[t].op \in {"goc", "multi"} /\ th[t].expiration_arg = None)
        => /\ region.expiration_time # None
           /\ th[t].expiration_time = region.expiration_time

\* such a call returns at once only a value younger than that expiration
RegionExpirationOnEnter ==
    \A t \in DOMAIN th :
        (/\ th[t].op = "goc" /\ th[t].pc = "enter"
         /\ th[t].expiration_arg = None
         /\ th'[t].pc = "done")
        => now - StoredFor(th[t].key).ct < region.expiration_time

\* C25: get_or_create and get_or_create_multi called with
\* expiration_time=-1 on a region with an expiration treat a stored value
\* that is not invalidated as fresh however old it is, and do not call the
\* creator for it; a call without the argument applies the region's
\* expiration.
C25_SentinelDisablesExpiry ==
    /\ [](SentinelHit /\ SentinelMultiHit /\ RegionExpirationApplies)
    /\ [][RegionExpirationOnEnter]_vars

\* the first call, with -1, has returned a value older than the region's
\* expiration without calling the creator, and a call without the argument
\* has called the creator for the same key
C25_Witness ==
    /\ th["t1"].op = "goc" /\ th["t1"].expiration_arg = NoExpiration
    /\ th["t1"].pc = "done" /\ ~th["t1"].invoked
    /\ th["t1"].ret = Stored(th["t1"].key, 2, value_version).payload
    /\ now - th["t1"].ret_ct > region.expiration_time
    /\ th["t2"].op = "goc" /\ th["t2"].expiration_arg = None
    /\ th["t2"].key = th["t1"].key
    /\ th["t2"].invoked

\* the async_creation_runner is started for key k in this step
RunnerInvoked(k) == runner[k].pc = "idle" /\ runner'[k].pc = "creating"

\* when the runner is started, a get_or_create that holds a stale value of
\* the key (expired or soft-invalidated) and takes or holds the mutex returns
\* that value in the same step without having called the creator, and the
\* mutex belongs to the runner
RunnerTakesStale ==
    \A k \in Keys :
        RunnerInvoked(k) =>
            /\ region.async_creation_runner
            /\ mutex'[k] = "runner"
            /\ \E t \in DOMAIN th :
                   /\ th[t].op = "goc" /\ lock_key(th[t]) = k
                   /\ \/ th[t].pc = "try_acquire" /\ mutex[k] = "free"
                      \/ th[t].pc = "reread" /\ mutex[k] = t
                   /\ th'[t].pc = "done" /\ th'[t].exc = "none"
                   /\ ~th'[t].invoked
                   /\ th'[t].env_ct > 0
                   /\ th'[t].ret_ct = th'[t].env_ct
                   /\ \/ th'[t].soft_seen
                      \/ now - th'[t].env_ct >= th'[t].expiration_time

\* with a runner configured, a get_or_create calls the creator itself only
\* when it read no usable value (missing or hard-invalidated)
SyncOnlyWithoutValue ==
    \A t \in DOMAIN th :
        (region.async_creation_runner /\ th[t].op = "goc" /\ th[t].invoked)
        => th[t].env_ct = 0

\* a get_or_create that finds no value under the mutex calls the creator
\* itself, runner or not
MissRunsCreator ==
    \A t \in DOMAIN th :
        (/\ th[t].op = "goc" /\ th[t].pc = "reread"
         /\ _is_cache_miss(_get_from_backend(lock_key(th[t]))))
        => (th'[t] = th[t] \/ (th'[t].pc = "creating" /\ th'[t].invoked
                               /\ runner' = runner))

\* while the runner works, the mutex stays held for it
RunnerHoldsMutex ==
    \A k \in Keys : runner[k].pc # "idle" => mutex[k] = "runner"

\* C27: with an async_creation_runner, get_or_create starts the runner only
\* when it holds a stale value and has acquired the mutex: it returns the
\* stale payload at once, does not call the creator, and leaves the mutex
\* held for the runner; for a missing or hard-invalidated key it calls the
\* creator itself and the runner is not started.
C27_RunnerOnlyForStale ==
    /\ [](SyncOnlyWithoutValue /\ RunnerHoldsMutex)
    /\ [][RunnerTakesStale /\ MissRunsCreator]_vars

\* the runner works on a key under its mutex while the caller has returned
\* the soft-invalidated payload without calling the creator
C27_Witness ==
    \E t \in DOMAIN th :
        /\ th[t].op = "goc" /\ th[t].pc = "done"
        /\ ~th[t].invoked /\ th[t].soft_seen
        /\ th[t].ret = StoredFor(th[t].key).payload
        /\ th[t].ret_ct > 0
        /\ runner[lock_key(th[t])].pc = "creating"
        /\ mutex[lock_key(th[t])] = "runner"
        /\ hist.creator_calls[lock_key(th[t])] = 1

\* a get_or_create that started after the invalidation creates an envelope
\* that is not behind the barrier
RegeneratedPastBarrier ==
    \A t \in DOMAIN th :
        (/\ th[t].op = "goc"
         /\ th[t].epoch = hist.invalidations /\ hist.invalidations > 0
         /\ th[t].created # NO_VALUE)
        => /\ th[t].created.ct >= region_invalidator.invalidated
           /\ ~is_invalidated(th[t].created.ct)

\* what the runner writes is not behind the barrier either
RunnerWritesPastBarrier ==
    \A k \in Keys :
        (runner[k].pc = "set" /\ runner'[k].pc = "release")
        => ~BehindBarrier(backend'[k])

\* a get_or_create that reads, after an invalidation, an envelope that is
\* not behind the barrier and not expired returns it without the creator
ConvergedRead ==
    \A t \in DOMAIN th :
        (/\ th[t].op = "goc" /\ th[t].pc = "enter" /\ th'[t] # th[t]
         /\ region_invalidator.invalidated # None
         /\ StoredFor(th[t].key) # NO_VALUE
         /\ ~BehindBarrier(StoredFor(th[t].key))
         /\ \/ th[t].expiration_time = None
            \/ now - StoredFor(th[t].key).ct < th[t].expiration_time)
        => /\ th'[t].pc = "done" /\ th'[t].exc = "none"
           /\ th'[t].ret = StoredFor(th[t].key).payload
           /\ ~th'[t].invoked
           /\ hist' = hist /\ backend' = backend

\* until the next invalidate, a key whose envelope is past the barrier never
\* gets an envelope behind it
StaysPastBarrier ==
    \A k \in Keys :
        (/\ region_invalidator.invalidated # None
         /\ region_invalidator' = region_invalidator
         /\ backend[k] # NO_VALUE
         /\ ~BehindBarrier(backend[k]))
        => ~BehindBarrier(backend'[k])

\* C28: after an invalidate, hard or soft, and a regeneration of key k, the
\* regenerated envelope is not behind the barrier and is not treated as
\* invalidated, it stays so until the next invalidate, and every
\* get_or_create(k) that reads it before it expires returns it without
\* calling the creator.
C28_ConvergesAfterInvalidate ==
    /\ []RegeneratedPastBarrier
    /\ [][RunnerWritesPastBarrier /\ ConvergedRead /\ StaysPastBarrier]_vars

\* after a soft invalidation of a stored value one call has regenerated the
\* key and the next call has returned the regenerated value without calling
\* the creator
C28_Witness ==
    \E t, u \in DOMAIN th :
        /\ was_soft_invalidated
        /\ th[t].op = "goc" /\ th[t].pc = "done"
        /\ th[t].soft_seen /\ th[t].invoked
        /\ th[t].wrote = {lock_key(th[t])}
        /\ th[t].epoch = hist.invalidations
        /\ th[u].op = "goc" /\ th[u].pc = "done"
        /\ th[u].key = th[t].key /\ th[u].epoch = hist.invalidations
        /\ ~th[u].invoked /\ ~th[u].saw_locked
        /\ th[u].ret = th[t].created.payload
        /\ th[u].ret_ct >= region_invalidator.invalidated
        /\ StoredFor(th[u].key) = th[t].created

----------------------------------------------------------------------------
(* get_or_create racing with one invalidate call, on a region that was    *)
(* invalidated before                                                      *)

HardInvalidatedAtStart == [invalidated |-> StartTime, is_hard |-> "True"]

InitRace ==
    InitWith(Threads, {OneMissingOneStored}, {SoftRegion},
             {NotInvalidated, SoftInvalidatedAtStart, HardInvalidatedAtStart})

NextRace ==
    \/ Tick
    \/ \E t \in Threads, hard \in BOOLEAN : StartInvalidate(t, hard)
    \/ \E t \in Threads : FinishInvalidate(t)
    \/ \E t \in Threads, k \in Keys :
           StartGetOrCreate(t, k, None, Plain[1], Plain[2], Plain[3])
    \/ \E t \in Threads : GetValueMissCheck(t)
    \/ \E t \in Threads : GetValueSoftCheck(t)
    \/ \E t \in Threads : LockTryAcquire(t)
    \/ \E t \in Threads : LockBlockAcquire(t)
    \/ \E t \in Threads : LockReread(t)
    \/ \E t \in Threads : GetOrCreateStep(t)

SpecRace == InitRace /\ [][NextRace]_vars

\* the call has returned a stored envelope as a fresh value: no creator
\* called, no mutex tried or taken
ReturnedAsFresh(r) ==
    /\ r.op = "goc" /\ r.pc = "done" /\ r.exc = "none"
    /\ r.env_ct > 0 /\ r.ret_ct = r.env_ct
    /\ ~r.invoked /\ ~r.saw_locked /\ ~r.soft_seen
    /\ r.acquired = <<>>

\* the envelope is behind the barrier of this invalidation state, soft or
\* hard
InvalidatedUnder(inv, ct) == inv.invalidated # None /\ ct < inv.invalidated

\* C29: an envelope that is invalidated both under the invalidation state
\* an invalidate call found and under the state it leaves is never returned
\* by get_or_create as a fresh value without a regeneration being attempted.
C29_RaceNeverFresh ==
    \A t \in DOMAIN th :
        (/\ InvalidatedUnder(hist.before, th[t].env_ct)
         /\ InvalidatedUnder(region_invalidator, th[t].env_ct))
        => ~ReturnedAsFresh(th[t])

----------------------------------------------------------------------------
(* a region with a serializer and a deserializer, over stored bytes the   *)
(* deserializer cannot read                                                *)

SerializingRegion ==
    [expiration_time |-> None, key_mangler |-> "none",
     async_creation_runner |-> FALSE,
     serializer |-> TRUE, deserializer |-> TRUE]

\* key 1 holds bytes for which the deserializer raises
\* CantDeserializeException; key 2 holds bytes on which it fails otherwise,
\* or the bytes of a value
UnreadableStored ==
    {[k \in Keys |-> IF k = 1 THEN CachedValue(CantBytes, StartTime - 1,
                                                value_version)
                     ELSE CachedValue(b, StartTime - 1, value_version)] :
         b \in {BadBytes, serializer(NoPayload - 2)}}

InitDeser ==
    InitWith(Threads, UnreadableStored, {SerializingRegion}, {NotInvalidated})

NextDeser ==
    \/ Tick
    \/ \E t \in Threads, k \in Keys :
           StartGetOrCreate(t, k, None, Plain[1], Plain[2], Plain[3])
    \/ \E t \in Threads : LockEnter(t)
    \/ \E t \in Threads : LockBlockAcquire(t)
    \/ \E t \in Threads : LockReread(t)
    \/ \E t \in Threads : GetOrCreateStep(t)
    \/ \E t \in Threads, k \in Keys, ig \in BOOLEAN : Get(t, k, None, ig)
    \/ \E t \in Threads, keys \in MultiKeys : GetMulti(t, keys, None, FALSE)

SpecDeser == InitDeser /\ [][NextDeser]_vars

\* the bytes stored for the caller's key have this payload part
StoredBytes(key, bytes) ==
    StoredFor(key) # NO_VALUE /\ StoredFor(key).payload = bytes

\* a get of bytes the deserializer declares it cannot deserialize returns
\* NO_VALUE; a get of bytes it fails on otherwise raises
GetOfUnreadable ==
    \A t \in DOMAIN th :
        Calls(t, "get") =>
            /\ StoredBytes(th'[t].key, CantBytes)
               => th'[t].ret = NoPayload /\ th'[t].exc = "none"
            /\ StoredBytes(th'[t].key, BadBytes)
               => th'[t].exc = "DeserializerError"

\* a get_or_create that reads such bytes goes for the mutex as for a missing
\* key, resp. raises at once, and writes nothing
EnterOnUnreadable ==
    \A t \in DOMAIN th :
        (th[t].op = "goc" /\ th[t].pc = "enter" /\ th'[t] # th[t]) =>
            /\ StoredBytes(th[t].key, CantBytes)
               => /\ th'[t].pc = "block_acquire"
                  /\ th'[t].exc = "none"
            /\ StoredBytes(th[t].key, BadBytes)
               => /\ th'[t].pc = "done"
                  /\ th'[t].exc = "DeserializerError"
                  /\ ~th'[t].invoked
                  /\ backend' = backend

\* the bytes it still finds under the mutex make it call the creator
RereadOnUnreadable ==
    \A t \in DOMAIN th :
        (/\ th[t].op = "goc" /\ th[t].pc = "reread" /\ th'[t] # th[t]
         /\ StoredBytes(th[t].key, CantBytes))
        => th'[t].pc = "creating" /\ th'[t].invoked

\* a get_or_create that has called the creator returns the created payload
\* with no exception, and the entry it wrote reads back as the envelope it
\* created
Overwritten ==
    \A t \in DOMAIN th :
        (th[t].op = "goc" /\ th[t].pc = "done" /\ th[t].invoked)
        => /\ th[t].exc = "none"
           /\ th[t].ret = th[t].created.payload
           /\ th[t].wrote = {lock_key(th[t])}
           /\ _get_from_backend(lock_key(th[t])) = th[t].created
           /\ ~StoredBytes(th[t].key, CantBytes)

\* C30: when the deserializer raises CantDeserializeException for the
\* stored bytes of a key, get returns NO_VALUE and get_or_create treats the
\* key as missing: it calls the creator, returns the new value and
\* overwrites the entry, with no exception; any other failure of the
\* deserializer reaches the caller.
C30_CantDeserializeIsMiss ==
    /\ []Overwritten
    /\ [][GetOfUnreadable /\ EnterOnUnreadable /\ RereadOnUnreadable]_vars

\* a get of key 1 has returned NO_VALUE and a get_or_create of key 1 has then
\* created a value, returned it and stored its bytes in place of the
\* unreadable ones
C30_Witness ==
    /\ th["t1"].op = "get" /\ th["t1"].key = 1
    /\ th["t1"].ret = NoPayload /\ th["t1"].exc = "none"
    /\ th["t2"].op = "goc" /\ th["t2"].key = 1 /\ th["t2"].pc = "done"
    /\ th["t2"].invoked /\ th["t2"].exc = "none"
    /\ th["t2"].ret = th["t2"].created.payload
    /\ backend[1].payload = serializer(th["t2"].ret)
    /\ backend[1].ct = now

----------------------------------------------------------------------------
(* The stored bytes: metadata as JSON, a pipe, the serialized payload     *)
(* (region.py:1273-1299). Bytes are sequences of numbers below 256, a     *)
(* payload is a sequence of 0s and 1s.                                     *)

\* the separator b"|"
Pipe == 124

\* the longest payload
MaxPayloadLen == 3

\* what a backend of bytes holds for a key that is not stored
NoBytes == <<>>

\* a serializer whose bytes contain a pipe for every 1 of the payload
payload_to_bytes(payload) ==
    [i \in 1..Len(payload) |-> IF payload[i] = 1 THEN Pipe ELSE 65]

\* its deserializer: payload_from_bytes(payload_to_bytes(p)) = p
payload_from_bytes(bytes) ==
    [i \in 1..Len(bytes) |-> IF bytes[i] = Pipe THEN 1 ELSE 0]

\* the decimal digits of a natural number, as bytes
RECURSIVE digits(_)
digits(n) ==
    IF n < 10 THEN <<48 + n>> ELSE digits(n \div 10) \o <<48 + (n % 10)>>

\* the natural number written with these digits
RECURSIVE number(_)
number(bytes) ==
    IF bytes = <<>> THEN 0
    ELSE 10 * number(SubSeq(bytes, 1, Len(bytes) - 1))
         + (bytes[Len(bytes)] - 48)

\* the place of the first byte b in bytes, 0 if there is none
first_index(bytes, b) ==
    IF \E i \in 1..Len(bytes) : bytes[i] = b
    THEN CHOOSE i \in 1..Len(bytes) :
             bytes[i] = b /\ \A j \in 1..(i - 1) : bytes[j] # b
    ELSE 0

\* the place of the last byte b in bytes, 0 if there is none
last_index(bytes, b) ==
    IF \E i \in 1..Len(bytes) : bytes[i] = b
    THEN CHOOSE i \in 1..Len(bytes) :
             bytes[i] = b /\ \A j \in (i + 1)..Len(bytes) : bytes[j] # b
    ELSE 0

\* the parts before and after the byte at place i; all and nothing for i = 0
split_at(bytes, i) ==
    IF i = 0 THEN <<bytes, <<>>>>
    ELSE <<SubSeq(bytes, 1, i - 1), SubSeq(bytes, i + 1, Len(bytes))>>

\* bytes.rpartition(sep): the split at the last separator
rpartition(bytes, sep) == split_at(bytes, last_index(bytes, sep))

\* bytes.partition(sep): the split at the first separator (region.py:1282)
partition(bytes, sep) == split_at(bytes, first_index(bytes, sep))

\* json.dumps(metadata).encode("ascii") for the metadata of _gen_metadata:
\* an object of the two numbers ct and v (region.py:1297, 1376-1377)
json_dumps(metadata) ==
    <<123>> \o digits(metadata.ct) \o <<44>> \o digits(metadata.v) \o <<125>>

\* json.loads of such bytes (region.py:1283)
json_loads(bytes) ==
    LET inner == SubSeq(bytes, 2, Len(bytes) - 1)
        parts == partition(inner, 44)
    IN  [ct |-> number(parts[1]), v |-> number(parts[2])]

\* CacheRegion._serialize_cached_value_elements (region.py:1291-1299)
_serialize_cached_value_elements(payload, metadata) ==
    json_dumps(metadata) \o <<Pipe>> \o payload_to_bytes(payload)

\* CacheRegion._parse_serialized_from_backend on bytes that the
\* deserializer accepts (region.py:1282-1289)
parse_bytes(byte_value) ==
    LET parts == partition(byte_value, Pipe)
    IN  [payload |-> payload_from_bytes(parts[2]),
         metadata |-> json_loads(parts[1])]

\* CacheRegion._gen_metadata (region.py:1376-1377)
_gen_metadata == [ct |-> now, v |-> value_version]

\* the payloads of up to MaxPayloadLen elements
Payloads ==
    UNION {[1..n -> {0, 1}] : n \in 0..MaxPayloadLen}

\* CacheRegion.set with a serializer (region.py:1385-1386): the bytes of the
\* payload and of new metadata go to the backend
SetSerialized(t, key, payload) ==
    /\ th[t].pc \in {"idle", "done"}
    /\ th[t].calls < MaxCalls
    /\ may_start(t)
    /\ backend' = [backend EXCEPT
                      ![key] = _serialize_cached_value_elements(
                                   payload, _gen_metadata)]
    /\ th' = [th EXCEPT ![t] =
                 [ReadCall(t, "set") EXCEPT
                     !.key = key,
                     !.created = [payload |-> payload,
                                  metadata |-> _gen_metadata]]]
    /\ UNCHANGED <<now, region_invalidator, region, mutex, runner, hist>>

\* a read of the stored bytes with a deserializer (region.py:1329-1333)
GetSerialized(t, key) ==
    /\ th[t].pc \in {"idle", "done"}
    /\ th[t].calls < MaxCalls
    /\ may_start(t)
    /\ th' = [th EXCEPT ![t] =
                 [ReadCall(t, "get") EXCEPT
                     !.key = key,
                     !.metadata = IF backend[key] = NoBytes THEN <<>>
                                  ELSE <<parse_bytes(backend[key])>>]]
    /\ UNCHANGED <<now, backend, region_invalidator, region, mutex, runner, hist>>

\* a backend of bytes with no key stored
NoBytesStored == [k \in Keys |-> NoBytes]

InitCodec ==
    InitWith(Threads, {NoBytesStored}, {SerializingRegion}, {NotInvalidated})

NextCodec ==
    \/ Tick
    \/ \E t \in Threads, k \in Keys, p \in Payloads : SetSerialized(t, k, p)
    \/ \E t \in Threads, k \in Keys : GetSerialized(t, k)

SpecCodec == InitCodec /\ [][NextCodec]_vars

\* how many pipes the bytes hold
Pipes(bytes) == Cardinality({i \in 1..Len(bytes) : bytes[i] = Pipe})

\* C31: the bytes that a set stores decode to the payload and the metadata
\* that were encoded, for every payload, also when the serialized payload
\* holds pipes; and the part before the first pipe is the encoded metadata.
C31_BytesRoundTrip ==
    [][\A t \in DOMAIN th :
          Calls(t, "set") =>
              LET bytes == backend'[th'[t].key]
              IN  /\ parse_bytes(bytes) = th'[t].created
                  /\ partition(bytes, Pipe)[1]
                         = json_dumps(th'[t].created.metadata)
                  /\ partition(bytes, Pipe)[2]
                         = payload_to_bytes(th'[t].created.payload)]_vars

\* a payload whose bytes hold two pipes was stored after a tick and read
\* back, payload and metadata as they were
C31_Witness ==
    \E t, u \in DOMAIN th :
        /\ th[t].op = "set" /\ th[u].op = "get" /\ th[u].key = th[t].key
        /\ Pipes(payload_to_bytes(th[t].created.payload)) = 2
        /\ Pipes(backend[th[t].key]) = 3
        /\ th[t].created.metadata.ct > StartTime
        /\ th[u].metadata = <<th[t].created>>

----------------------------------------------------------------------------
(* Construction and configuration of the region (region.py:401-600,       *)
(* 690-704). The region is the record of its instance attributes: attrs   *)
(* are the names in its __dict__ that configure assigns, backend is the   *)
(* chain of proxies down to the backend, outermost first.                 *)

\* an expiration_time that is neither a number nor a timedelta
BadExpiration == -3

\* the most calls the configuring thread makes
MaxConfigCalls == 4

\* the backends the plugin loader finds, and a name it does not find
Plugins == {"memory", "dbm"}

BackendNames == Plugins \cup {"missing"}

\* the key mangler a backend recommends (CacheBackend.key_mangler)
backend_key_mangler(name) == IF name = "dbm" THEN "rev" ELSE "none"

\* the ProxyBackend classes, and a class that is not a ProxyBackend
Proxies == {"p1", "p2"}

\* the wrap arguments of configure
Wraps == {<<>>, <<"p1">>, <<"bad", "p1">>}

\* CacheRegion.__init__ (region.py:401-421): key_mangler is "none" for
\* None, "False" for False, "rev" for a function of the user
NewRegion(key_mangler_arg) ==
    [attrs |-> {}, backend |-> <<>>, expiration_time |-> None,
     key_mangler |-> key_mangler_arg,
     _user_defined_key_mangler |-> key_mangler_arg,
     _actual_backend |-> "None",
     async_creation_runner |-> FALSE,
     serializer |-> FALSE, deserializer |-> FALSE]

\* CacheRegion.is_configured (region.py:696-704)
is_configured(self) == "backend" \in self.attrs

\* the outcome of a method: the region it leaves and what it raised
Outcome(self, exc) == [region |-> self, exc |-> exc]

\* CacheRegion.wrap (region.py:539-555)
wrap(self, proxy) ==
    IF proxy \notin Proxies THEN Outcome(self, "TypeError")
    ELSE IF ~is_configured(self) THEN Outcome(self, "RegionNotConfigured")
    ELSE Outcome([self EXCEPT !.backend = <<proxy>> \o @], "none")

\* for wrapper in reversed(wrap): self.wrap(wrapper) (region.py:530-532),
\* wrappers being what is left of wrap
RECURSIVE wrap_all(_, _)
wrap_all(self, wrappers) ==
    IF wrappers = <<>> THEN Outcome(self, "none")
    ELSE LET one == wrap(self, wrappers[Len(wrappers)])
         IN  IF one.exc # "none" THEN one
             ELSE wrap_all(one.region,
                           SubSeq(wrappers, 1, Len(wrappers) - 1))

\* CacheRegion.configure (region.py:423-537), up to the wrappers
configure(self, a) ==
    IF is_configured(self) /\ ~a.replace_existing_backend
    THEN Outcome(self, "RegionAlreadyConfigured")
    ELSE IF a.backend \notin Plugins THEN Outcome(self, "PluginNotFound")
    ELSE
    LET with_backend ==
            [self EXCEPT !.attrs = @ \cup {"backend"},
                         !.backend = <<a.backend>>]
    IN  IF a.expiration_time = BadExpiration
        THEN Outcome(with_backend, "ValidationError")
        ELSE wrap_all(
                 [with_backend EXCEPT
                     !.attrs = @ \cup {"expiration_time", "_lock_registry"},
                     !.expiration_time = a.expiration_time,
                     !.key_mangler =
                         IF self._user_defined_key_mangler
                                \in {"none", "False"}
                         THEN backend_key_mangler(a.backend) ELSE @],
                 a.wrap)

\* a call of the configuring thread that is over
ConfigCall(t, op, a, exc, returned) ==
    [IdleThread EXCEPT !.pc = "done", !.op = op, !.calls = th[t].calls + 1,
                       !.epoch = hist.invalidations, !.args = a,
                       !.exc = exc, !.returned = returned]

\* region.configure(backend, expiration_time, wrap=...,
\* replace_existing_backend=..., region_invalidator=...): a new lock
\* registry (528) and, at the end, the invalidation strategy passed (534-535)
Configure(t, a) ==
    LET out == configure(region, a)
        done == out.exc = "none"
    IN  /\ th[t].calls < MaxConfigCalls
        /\ region' = out.region
        /\ region_invalidator' =
               IF done /\ a.region_invalidator THEN NotInvalidated
               ELSE region_invalidator
        /\ mutex' = IF out.exc \in {"none", "TypeError"}
                    THEN [k \in Keys |-> "free"] ELSE mutex
        /\ th' = [th EXCEPT ![t] = ConfigCall(t, "configure", a, out.exc, "none")]
        /\ hist' = [hist EXCEPT
                        !.configures = IF done THEN @ + 1 ELSE @,
                        !.failed = IF out.exc \notin {"none", "RegionAlreadyConfigured",
                                                      "PluginNotFound"}
                                   THEN @ + 1 ELSE @]
        /\ UNCHANGED <<now, backend, runner>>

\* region.wrap(proxy)
Wrap(t, proxy) ==
    LET out == wrap(region, proxy)
    IN  /\ th[t].calls < MaxConfigCalls
        /\ region' = out.region
        /\ th' = [th EXCEPT ![t] =
                     ConfigCall(t, "wrap", [NoArgs EXCEPT !.wrap = <<proxy>>],
                                out.exc, "none")]
        /\ UNCHANGED <<now, backend, region_invalidator, mutex, runner, hist>>

\* the backend at the end of the chain of proxies: the loop of
\* actual_backend (region.py:594-598)
ultimate(chain) == chain[Len(chain)]

\* CacheRegion.actual_backend (region.py:582-600)
actual_backend(self) ==
    IF self._actual_backend # "None"
    THEN [region |-> self, exc |-> "none", returned |-> self._actual_backend]
    ELSE IF ~is_configured(self)
    THEN [region |-> self, exc |-> "RegionNotConfigured", returned |-> "none"]
    ELSE [region |-> [self EXCEPT !._actual_backend = ultimate(self.backend)],
          exc |-> "none", returned |-> ultimate(self.backend)]

\* a read of region.actual_backend
ActualBackend(t) ==
    LET out == actual_backend(region)
    IN  /\ th[t].calls < MaxConfigCalls
        /\ region' = out.region
        /\ th' = [th EXCEPT ![t] =
                     ConfigCall(t, "actual_backend", NoArgs, out.exc,
                                out.returned)]
        /\ UNCHANGED <<now, backend, region_invalidator, mutex, runner, hist>>

\* the operations on the cache
CacheOps ==
    {"get", "get_multi", "get_value_metadata", "set", "set_multi", "delete",
     "delete_multi", "goc", "multi", "key_is_locked"}

\* what an operation raises when it reads an attribute that configure has
\* not assigned, in the order in which it reads them; "none" when it finds
\* them all. expiration_time is the argument of get_or_create ("goc") and
\* get_or_create_multi ("multi"), keys are not empty.
missing_attribute(self, op, expiration_time) ==
    LET no_backend == "backend" \notin self.attrs
        no_expiration == expiration_time = None
                         /\ "expiration_time" \notin self.attrs
        no_registry == "_lock_registry" \notin self.attrs
    IN  CASE op = "goc" ->
                 IF no_expiration \/ no_registry THEN "AttributeError"
                 ELSE IF no_backend THEN "RegionNotConfigured" ELSE "none"
          [] op = "multi" ->
                 IF no_expiration THEN "AttributeError"
                 ELSE IF no_backend THEN "RegionNotConfigured"
                 ELSE IF no_registry THEN "AttributeError" ELSE "none"
          [] op = "key_is_locked" ->
                 IF no_registry THEN "AttributeError" ELSE "none"
          [] op = "get_multi" ->
                 IF self.key_mangler = "False" THEN "TypeError"
                 ELSE IF no_backend THEN "RegionNotConfigured" ELSE "none"
          [] OTHER ->
                 IF no_backend THEN "RegionNotConfigured" ELSE "none"

\* an operation on a region that lacks an attribute the operation reads
Unconfigured(t, op, expiration_time) ==
    LET exc == missing_attribute(region, op, expiration_time)
    IN  /\ th[t].calls < MaxConfigCalls
        /\ exc # "none"
        /\ th' = [th EXCEPT ![t] =
                     ConfigCall(t, op,
                                [NoArgs EXCEPT !.expiration_time = expiration_time],
                                exc, "none")]
        /\ UNCHANGED <<now, backend, region_invalidator, region, mutex,
                       runner, hist>>

\* the arguments of the configure calls
ConfigArgs ==
    [backend : BackendNames, expiration_time : {3, BadExpiration},
     wrap : Wraps, replace_existing_backend : BOOLEAN,
     region_invalidator : BOOLEAN]

\* arguments with which configure has nothing to reject
valid(a) ==
    /\ a.backend \in Plugins
    /\ a.expiration_time # BadExpiration
    /\ \A i \in 1..Len(a.wrap) : a.wrap[i] \in Proxies

ConfigThreads == {"t1"}

InitConfig ==
    InitWith(ConfigThreads, {NothingStored},
             {NewRegion(m) : m \in {"none", "False", "rev"}}, {NotInvalidated})

NextConfig ==
    \/ \E hard \in BOOLEAN : Invalidate(hard)
    \/ \E t \in ConfigThreads, a \in ConfigArgs : Configure(t, a)
    \/ \E t \in ConfigThreads, proxy \in Proxies \cup {"bad"} : Wrap(t, proxy)
    \/ \E t \in ConfigThreads : ActualBackend(t)
    \/ \E t \in ConfigThreads, op \in CacheOps, e \in {None, 3} :
           Unconfigured(t, op, e)

SpecConfig == InitConfig /\ [][NextConfig]_vars

\* a configure on a configured region without replace_existing_backend=True
\* raises RegionAlreadyConfigured and changes nothing
RejectsSecondConfigure ==
    [][\A t \in DOMAIN th :
          (/\ Calls(t, "configure")
           /\ is_configured(region)
           /\ ~th'[t].args.replace_existing_backend) =>
              /\ th'[t].exc = "RegionAlreadyConfigured"
              /\ region' = region
              /\ region_invalidator' = region_invalidator]_vars

\* a configure with replace_existing_backend=True and arguments that are
\* valid returns and installs the new backend under the wrappers
ReplaceInstalls ==
    [][\A t \in DOMAIN th :
          (/\ Calls(t, "configure")
           /\ is_configured(region)
           /\ th'[t].args.replace_existing_backend
           /\ valid(th'[t].args)) =>
              /\ th'[t].exc = "none"
              /\ region'.backend = th'[t].args.wrap \o <<th'[t].args.backend>>]_vars

\* C32: a configure on a configured region without
\* replace_existing_backend=True raises RegionAlreadyConfigured and leaves
\* backend, expiration and invalidation as they are; with
\* replace_existing_backend=True it returns and installs the new backend;
\* and is_configured is true exactly when a configure call has returned.
C32_ConfigureOnce ==
    /\ [](is_configured(region) <=> hist.configures > 0)
    /\ RejectsSecondConfigure
    /\ ReplaceInstalls

\* C33: every operation on the cache that is called before configure raises
\* RegionNotConfigured, and the region is still not configured afterwards.
C33_NotConfiguredError ==
    [][\A t \in DOMAIN th, op \in CacheOps :
          (Calls(t, op) /\ ~is_configured(region)) =>
              /\ th'[t].exc = "RegionNotConfigured"
              /\ ~is_configured(region')]_vars

\* C35: a region constructed with key_mangler=False mangles no key after
\* its configure, also when the backend recommends a key mangler.
C35_FalseDisablesMangling ==
    (/\ region._user_defined_key_mangler = "False"
     /\ hist.configures > 0
     /\ hist.failed = 0) =>
        region.key_mangler \in {"none", "False"}

\* C36: after a configure that returned, also after further wrap calls and
\* after a later configure with replace_existing_backend=True,
\* actual_backend returns the backend at the end of the installed chain.
C36_ActualBackendIsUltimate ==
    [][\A t \in DOMAIN th :
          (/\ Calls(t, "actual_backend")
           /\ hist.configures > 0
           /\ hist.failed = 0) =>
              /\ th'[t].exc = "none"
              /\ th'[t].returned = ultimate(region.backend)]_vars

\* C40: a configure that raises leaves is_configured, the backend with its
\* proxies, the expiration and the invalidation as they were; a region that
\* was never configured can then be configured with valid arguments.
C40_FailedConfigureChangesNothing ==
    [][\A t \in DOMAIN th :
          Calls(t, "configure") =>
              /\ th'[t].exc # "none" =>
                     /\ region' = region
                     /\ region_invalidator' = region_invalidator
              /\ (hist.configures = 0 /\ valid(th'[t].args)) =>
                     th'[t].exc = "none"]_vars

----------------------------------------------------------------------------
(* key_is_locked (region.py:926-935), beside get_or_create and            *)
(* get_or_create_multi, with and without a key mangler                    *)

\* region.key_is_locked(key): the mutex that the registry holds under the
\* key as the caller passed it
KeyIsLocked(t, key) ==
    /\ th[t].pc \in {"idle", "done"}
    /\ th[t].calls < MaxCalls
    /\ may_start(t)
    /\ th' = [th EXCEPT ![t] =
                 [ReadCall(t, "key_is_locked") EXCEPT
                     !.key = key,
                     !.returned = IF locked(key) THEN "True" ELSE "False"]]
    /\ UNCHANGED <<now, backend, region_invalidator, region, mutex, runner, hist>>

LockedRegions ==
    {[expiration_time |-> 1, key_mangler |-> m,
      async_creation_runner |-> a,
      serializer |-> FALSE, deserializer |-> FALSE] :
         m \in {"none", "rev"}, a \in BOOLEAN}

InitLocked ==
    InitWith(Threads, {OneMissingOneStored}, LockedRegions, {NotInvalidated})

NextLocked ==
    \/ Tick
    \/ \E t \in Threads, k \in Keys :
           StartGetOrCreate(t, k, None, Plain[1], Plain[2], Plain[3])
    \/ \E t \in Threads, ks \in MultiKeys :
           StartGetOrCreateMulti(t, ks, None, Plain[1], Plain[2], Plain[3])
    \/ \E t \in Threads : LockStep(t) \/ GetOrCreateStep(t) \/ MultiStep(t)
    \/ \E k \in Keys : RunnerStep(k)
    \/ \E t \in Threads, k \in Keys : KeyIsLocked(t, k)

SpecLocked == InitLocked /\ [][NextLocked]_vars

\* a get_or_create or get_or_create_multi for the key k of the caller, or
\* the runner it started, holds the mutex of k
HeldFor(k) ==
    \/ \E u \in DOMAIN th :
           /\ \/ th[u].op = "goc" /\ th[u].key = k
              \/ th[u].op = "multi" /\ k \in Range(th[u].skeys)
           /\ mutex[key_mangler(k)] = u
    \/ /\ runner[key_mangler(k)].pc # "idle"
       /\ mutex[key_mangler(k)] = "runner"

\* C34: key_is_locked(k) returns True exactly when a get_or_create or
\* get_or_create_multi for k, or its async runner, holds the mutex of k,
\* with a key mangler and without one.
C34_KeyIsLockedTracksHolder ==
    [][\A t \in DOMAIN th :
          Calls(t, "key_is_locked") =>
              (th'[t].returned = "True" <=> HeldFor(th'[t].key))]_vars

\* the same for regions without a key mangler
KeyIsLockedUnmangled ==
    [][\A t \in DOMAIN th :
          (Calls(t, "key_is_locked") /\ region.key_mangler = "none") =>
              (th'[t].returned = "True" <=> HeldFor(th'[t].key))]_vars

----------------------------------------------------------------------------
(* The placeholder gen_value of get_or_create_multi (region.py:1185-1186)  *)

\* C37: no call of get_or_create_multi ends in the NotImplementedError of
\* its placeholder gen_value, whatever the cache holds and however the
\* calls interleave.
C37_PlaceholderNeverRuns ==
    \A t \in DOMAIN th : th[t].exc # "NotImplementedError"

\* a get_or_create_multi found a key missing while the mutex was free, and
\* another found a stored value expired; both created and returned
C37_Witness ==
    \E t \in DOMAIN th :
        /\ th[t].op = "multi" /\ th[t].pc = "done" /\ th[t].exc = "none"
        /\ th[t].invoked
        /\ th[t].wrote = Keys
        /\ ~th[t].waited

----------------------------------------------------------------------------
(* invalidate() while a creator runs: the first thread calls              *)
(* get_or_create, invalidate is called while its creator is running, and  *)
(* the other thread calls get_or_create after the first has returned      *)

Producer == ThreadOrder[1]

\* region.invalidate(hard) while the creator of the producer is running
InvalidateWhileCreating(hard) ==
    /\ th[Producer].pc = "creating"
    /\ Invalidate(hard)

\* a get_or_create that starts when the producer's call is over, its value
\* written and its mutex released
StartAfterProducer(t, key) ==
    /\ t # Producer => th[Producer].pc = "done"
    /\ StartGetOrCreate(t, key, None, Plain[1], Plain[2], Plain[3])

InitOvertaken ==
    InitWith(Threads, {OneMissingOneStored}, ExpiringRegion({FALSE}),
             {NotInvalidated})

NextOvertaken ==
    \/ Tick
    \/ \E hard \in BOOLEAN : InvalidateWhileCreating(hard)
    \/ \E t \in Threads, k \in Keys : StartAfterProducer(t, k)
    \/ \E t \in Threads : LockStep(t) \/ GetOrCreateStep(t)

SpecOvertaken == InitOvertaken /\ [][NextOvertaken]_vars

\* C38: when invalidate() was called while the creator of a key was
\* running, the value that creator produced is not served as fresh: the
\* first get_or_create of the key that starts after the invalidate and
\* after the producer's write calls its creator.
C38_OvertakenValueRegenerated ==
    \A u \in DOMAIN th \ {Producer} :
        (/\ hist.invalidations > 0
         /\ th[Producer].exc = "none" /\ th[Producer].wrote # {}
         /\ th[u].op = "goc" /\ th[u].pc = "done" /\ th[u].exc = "none"
         /\ th[u].key = th[Producer].key) =>
            th[u].invoked

----------------------------------------------------------------------------
(* A region that was hard-invalidated at StartTime, over an envelope made *)
(* before; further invalidate calls of both modes                         *)

PermanentRegions ==
    {[SoftRegion EXCEPT !.async_creation_runner = a] : a \in BOOLEAN}

InitPermanent ==
    InitWith(Threads, {OneMissingOneStored}, PermanentRegions,
             {HardInvalidatedAtStart})

NextPermanent ==
    \/ Tick
    \/ \E hard \in BOOLEAN : Invalidate(hard)
    \/ \E t \in Threads, k \in Keys :
           StartGetOrCreate(t, k, None, Plain[1], Plain[2], Plain[3])
    \/ \E t \in Threads : LockStep(t) \/ GetOrCreateStep(t)
    \/ \E k \in Keys : RunnerStep(k)

SpecPermanent == InitPermanent /\ [][NextPermanent]_vars

\* C39: after invalidate(hard=True) at the time T, no get_or_create
\* returns an envelope created before T, whatever invalidate calls of
\* either mode follow, with contention and with the async runner.
C39_HardInvalidationIsPermanent ==
    \A t \in DOMAIN th :
        (th[t].op = "goc" /\ th[t].pc = "done" /\ th[t].exc = "none") =>
            ~(th[t].ret_ct > 0 /\ th[t].ret_ct < StartTime)

\* the same as long as no later invalidate is soft
PermanentWhileHard ==
    region_invalidator.is_hard = "True" => C39_HardInvalidationIsPermanent
====
